---- MODULE Spec2Model ----
(***************************************************************************)
(* Model of the image processor of src/main.py (ImageProcessorApp, the     *)
(* Tk application) with its pipeline resize_image / ensure_output_directory*)
(* and of the batch worker it runs on a background thread; and of the Kivy *)
(* application PngToJpgConverter of src/ui/converter.py with its pipeline  *)
(* convert_image / ensure_output_directory of src/utils/image_converter.py.*)
(*                                                                         *)
(* Text (paths, entry contents) is a sequence of one-character strings, so *)
(* that os.path.basename / splitext / join, str.strip, str.lower and int() *)
(* are computed as the library computes them.                              *)
(***************************************************************************)
EXTENDS Integers, Sequences, FiniteSets, TLC

\* ------------------------------------------------------------------ bounds
\* Direct calls of the pipeline's functions in one behaviour, and how many of
\* them are conversions.
MaxCalls == 2
MaxConversions == 1
\* Longest selected-files list the selection actions build.
MaxFiles == 2
\* Number of Process presses that pass validation (worker threads started).
MaxRuns == 1
\* The same where the user presses Process again.
MaxReruns == 2

\* ------------------------------------------------------------------ text
\* Python's None where a string is expected (an absent output_format), and
\* an optional int as a sequence: << >> is None, <<v>> the int v.
None == "None"
NoInt == << >>
SomeInt(v) == <<v>>
\* Truthy taking no value for set.
Truthy_Never(x) == FALSE

\* Python truthiness of an optional int: neither None nor 0.
Truthy(x) == x # NoInt /\ x[1] # 0

\* The characters str.strip() removes, those for which str.isspace() holds,
\* among the characters U+0000 to U+00FF a string of this module can
\* hold: tab, line feed, vertical tab, form feed, carriage return, the four
\* separators U+001C to U+001F, space, next line (U+0085) and no-break
\* space (U+00A0), written below in that order from the vertical tab on.
Whitespace ==
    {" ", "\t", "\n", "\r", "\f", "", "", "", "", "",
     "", " "}
\* The characters int() skips around a number: the six blanks of ASCII, and
\* the blanks above ASCII, which it reads as spaces; the separators U+001C
\* to U+001F are no part of a number for it.
IntWhitespace ==
    {" ", "\t", "\n", "\r", "\f", "", "", " "}
Digits == {"0", "1", "2", "3", "4", "5", "6", "7", "8", "9"}

DigitVal(c) ==
    CASE c = "0" -> 0 [] c = "1" -> 1 [] c = "2" -> 2 [] c = "3" -> 3
      [] c = "4" -> 4 [] c = "5" -> 5 [] c = "6" -> 6 [] c = "7" -> 7
      [] c = "8" -> 8 [] c = "9" -> 9

\* str.lower on one character: the upper-case letters among the characters
\* U+0000 to U+00FF, those of ASCII and U+00C0 to U+00DE without the
\* multiplication sign, are lowered, every other character is kept.
LowerChar(c) ==
    CASE c = "A" -> "a" [] c = "B" -> "b" [] c = "C" -> "c" [] c = "D" -> "d"
      [] c = "E" -> "e" [] c = "F" -> "f" [] c = "G" -> "g" [] c = "H" -> "h"
      [] c = "I" -> "i" [] c = "J" -> "j" [] c = "K" -> "k" [] c = "L" -> "l"
      [] c = "M" -> "m" [] c = "N" -> "n" [] c = "O" -> "o" [] c = "P" -> "p"
      [] c = "Q" -> "q" [] c = "R" -> "r" [] c = "S" -> "s" [] c = "T" -> "t"
      [] c = "U" -> "u" [] c = "V" -> "v" [] c = "W" -> "w" [] c = "X" -> "x"
      [] c = "Y" -> "y" [] c = "Z" -> "z"
      [] c = "À" -> "à" [] c = "Á" -> "á" [] c = "Â" -> "â" [] c = "Ã" -> "ã"
      [] c = "Ä" -> "ä" [] c = "Å" -> "å" [] c = "Æ" -> "æ" [] c = "Ç" -> "ç"
      [] c = "È" -> "è" [] c = "É" -> "é" [] c = "Ê" -> "ê" [] c = "Ë" -> "ë"
      [] c = "Ì" -> "ì" [] c = "Í" -> "í" [] c = "Î" -> "î" [] c = "Ï" -> "ï"
      [] c = "Ð" -> "ð" [] c = "Ñ" -> "ñ" [] c = "Ò" -> "ò" [] c = "Ó" -> "ó"
      [] c = "Ô" -> "ô" [] c = "Õ" -> "õ" [] c = "Ö" -> "ö" [] c = "Ø" -> "ø"
      [] c = "Ù" -> "ù" [] c = "Ú" -> "ú" [] c = "Û" -> "û" [] c = "Ü" -> "ü"
      [] c = "Ý" -> "ý" [] c = "Þ" -> "þ"
      [] OTHER -> c

Lower(s) == [k \in 1..Len(s) |-> LowerChar(s[k])]

\* s[a..b] (1-based, inclusive); empty when a > b.
Slice(s, a, b) == IF a > b THEN << >> ELSE SubSeq(s, a, b)

\* str.rfind(c) as a 1-based index, 0 when c does not occur.
RFind(s, c) ==
    LET hits == {k \in 1..Len(s) : s[k] = c}
    IN  IF hits = {} THEN 0 ELSE CHOOSE k \in hits : \A j \in hits : j <= k

\* s without the characters of blanks at its two ends.
StripOf(s, blanks) ==
    LET keep == {k \in 1..Len(s) : s[k] \notin blanks}
    IN  IF keep = {} THEN << >>
        ELSE LET lo == CHOOSE k \in keep : \A j \in keep : k <= j
                 hi == CHOOSE k \in keep : \A j \in keep : j <= k
             IN  SubSeq(s, lo, hi)

\* str.strip(): leading and trailing whitespace removed.
Strip(s) == StripOf(s, Whitespace)

\* str.endswith(suffix)
EndsWith(s, suffix) ==
    /\ Len(s) >= Len(suffix)
    /\ Slice(s, Len(s) - Len(suffix) + 1, Len(s)) = suffix

RECURSIVE DigitsValue(_)
DigitsValue(s) ==
    IF s = << >> THEN 0
    ELSE 10 * DigitsValue(SubSeq(s, 1, Len(s) - 1)) + DigitVal(s[Len(s)])

\* int(text): the blanks int() skips are ignored at both ends, then an
\* optional sign and decimal digits, which single underscores may group
\* ('1_0' is 10); a text of any other form raises ValueError.
PyInt(text) ==
    LET t      == StripOf(text, IntWhitespace)
        sign   == t # << >> /\ t[1] \in {"+", "-"}
        body   == IF sign THEN Tail(t) ELSE t
        digits == SelectSeq(body, LAMBDA c : c # "_")
        wellFormed ==
            /\ body # << >>
            /\ \A k \in 1..Len(body) : body[k] \in Digits \cup {"_"}
            /\ body[1] # "_" /\ body[Len(body)] # "_"
            /\ \A k \in 1..(Len(body) - 1) :
                   ~(body[k] = "_" /\ body[k + 1] = "_")
    IN  IF wellFormed
        THEN [ok |-> TRUE,
              value |-> IF sign /\ t[1] = "-" THEN 0 - DigitsValue(digits)
                        ELSE DigitsValue(digits)]
        ELSE [ok |-> FALSE, value |-> 0]

\* ------------------------------------------------------------------ os.path
\* os.path.basename(p): what follows the last "/".
basename(p) == Slice(p, RFind(p, "/") + 1, Len(p))

\* os.path.dirname(p): what precedes the last "/", trailing slashes removed
\* unless the head is all slashes.
dirname(p) ==
    LET head  == Slice(p, 1, RFind(p, "/"))
        solid == {k \in 1..Len(head) : head[k] # "/"}
    IN  IF solid = {} THEN head
        ELSE SubSeq(head, 1, CHOOSE k \in solid : \A j \in solid : j <= k)

\* os.path.splitext(p): <<root, ext>>; the extension starts at the last dot of
\* the last component unless only dots precede it there.
splitext(p) ==
    LET sepIndex == RFind(p, "/")
        dotIndex == RFind(p, ".")
    IN  IF /\ dotIndex > sepIndex
           /\ \E k \in (sepIndex + 1)..(dotIndex - 1) : p[k] # "."
        THEN <<Slice(p, 1, dotIndex - 1), Slice(p, dotIndex, Len(p))>>
        ELSE <<p, << >> >>

\* os.path.join(a, b)
join(a, b) ==
    IF b # << >> /\ b[1] = "/" THEN b
    ELSE IF a = << >> \/ a[Len(a)] = "/" THEN a \o b
    ELSE a \o <<"/">> \o b

\* ------------------------------------------------------------------ files
\* Path names of the modelled file system.
ROOT        == <<"/">>
HOME        == <<"/", "h">>
IN_DIR      == <<"/", "i", "n">>
RO_DIR      == <<"/", "r", "o">>
RO_NEW      == <<"/", "r", "o", "/", "n">>
BLOCKED     == <<"/", "f">>
A_PNG       == <<"/", "i", "n", "/", "a", ".", "p", "n", "g">>
B_PNG       == <<"/", "i", "n", "/", "b", ".", "p", "n", "g">>
A_JPG       == <<"/", "i", "n", "/", "a", ".", "J", "P", "G">>

\* os.path.expanduser('~/Pictures')
DefaultOutputDir == HOME \o <<"/", "P">>

\* What a path holds: a directory, or a regular file with the image PIL
\* decodes from it (format "" when the bytes are no image).
NoImage == [format |-> "", mode |-> "", size |-> <<0, 0>>]
Dir(writable) == [kind |-> "dir", writable |-> writable, img |-> NoImage]
File(img) == [kind |-> "file", writable |-> TRUE, img |-> img]
Img(format, mode, w, h) == [format |-> format, mode |-> mode, size |-> <<w, h>>]

\* The file system when the application starts.
InitialFS ==
    (ROOT :> Dir(TRUE)) @@ (HOME :> Dir(TRUE)) @@ (IN_DIR :> Dir(TRUE))
      @@ (RO_DIR :> Dir(FALSE)) @@ (BLOCKED :> File(NoImage))
      @@ (A_PNG :> File(Img("PNG", "RGBA", 4, 2)))
      @@ (B_PNG :> File(NoImage))
      @@ (A_JPG :> File(Img("JPEG", "L", 3, 3)))

\* The working directory of the process, for paths that do not start at
\* the root.
CWD == ROOT

\* No path: what the kernel's lookup gives when a component on the way is
\* missing or is no directory.
NoPath == << >>

\* The components of a path, the texts between its slashes (empty ones for a
\* leading, a doubled or a trailing slash).
RECURSIVE Components(_)
Components(p) ==
    LET slashes == {k \in 1..Len(p) : p[k] = "/"}
    IN  IF slashes = {} THEN <<p>>
        ELSE LET i == CHOOSE k \in slashes : \A j \in slashes : k <= j
             IN  <<Slice(p, 1, i - 1)>> \o Components(Slice(p, i + 1, Len(p)))

\* The kernel's walk from the directory cur along components: every step,
\* also an empty one, "." and "..", needs cur to be an existing directory.
RECURSIVE Walk(_, _, _)
Walk(fs, cur, comps) ==
    IF comps = << >> THEN cur
    ELSE IF ~(cur \in DOMAIN fs /\ fs[cur].kind = "dir") THEN NoPath
    ELSE LET c == Head(comps)
         IN  Walk(fs,
                  IF c = << >> \/ c = <<".">> THEN cur
                  ELSE IF c = <<".", ".">> THEN dirname(cur)
                  ELSE join(cur, c),
                  Tail(comps))

\* The name under which the file system holds what the path p names (there
\* are no links): p with ".", "..", doubled and trailing slashes resolved,
\* from the working directory when p is relative; NoPath when the lookup
\* fails before its last component, or for the empty path.
Resolve(fs, p) ==
    IF p = << >> THEN NoPath
    ELSE Walk(fs, IF p[1] = "/" THEN ROOT ELSE CWD, Components(p))

\* os.path.exists
exists(fs, p) == Resolve(fs, p) \in DOMAIN fs
\* os.path.isdir
isdir(fs, p) == exists(fs, p) /\ fs[Resolve(fs, p)].kind = "dir"
\* What the path holds (the path exists).
Entry(fs, p) == fs[Resolve(fs, p)]

\* WriteEntry leaving an existing entry as it is.
WriteEntry_KeepsExisting(fs, p, e) ==
    IF p \in DOMAIN fs THEN fs
    ELSE [q \in DOMAIN fs \cup {p} |-> IF q = p THEN e ELSE fs[q]]

\* open(p, "w+b") and write, or mkdir, p being a resolved name: p holds e
\* afterwards.
WriteEntry(fs, p, e) ==
    [q \in DOMAIN fs \cup {p} |-> IF q = p THEN e ELSE fs[q]]

\* os.path.split(p): <<head, tail>>
split(p) == <<dirname(p), basename(p)>>

\* p without its trailing slashes (one is kept when p is all slashes; the
\* empty path stays empty).
RStripSlashes(p) ==
    LET solid == {k \in 1..Len(p) : p[k] # "/"}
    IN  IF p = << >> THEN << >>
        ELSE IF solid = {} THEN SubSeq(p, 1, 1)
        ELSE SubSeq(p, 1, CHOOSE k \in solid : \A j \in solid : j <= k)

\* os.mkdir(name): the kernel ignores trailing slashes; the parent must be an
\* existing writable directory and the name be new. err is "EEXIST" for a
\* FileExistsError, "OSError" for any other error.
mkdir(fs, name) ==
    LET bare   == RStripSlashes(name)
        last   == basename(bare)
        parent == IF bare = << >> THEN NoPath
                  ELSE Walk(fs, IF bare[1] = "/" THEN ROOT ELSE CWD,
                            Components(Slice(bare, 1, Len(bare) - Len(last))))
        target == join(parent, last)
        failed(err) == [ok |-> FALSE, fs |-> fs, err |-> err]
    IN  IF parent = NoPath \/ ~(parent \in DOMAIN fs) THEN failed("OSError")
        ELSE IF fs[parent].kind # "dir" THEN failed("OSError")
        ELSE IF last \in {<< >>, <<".">>, <<".", ".">>} THEN failed("EEXIST")
        ELSE IF target \in DOMAIN fs THEN failed("EEXIST")
        ELSE IF ~fs[parent].writable THEN failed("OSError")
        ELSE [ok |-> TRUE, fs |-> WriteEntry(fs, target, Dir(TRUE)),
              err |-> ""]

\* os.makedirs(name): the tail is the last component (the one before a
\* trailing slash); the missing ancestors are made first, a FileExistsError
\* of that part is passed over, and a tail "." ends the call there; then
\* mkdir(name), whose OSError propagates. What was created before an error
\* stays.
RECURSIVE makedirs(_, _)
makedirs(fs, name) ==
    LET first == split(name)
        parts == IF first[2] = << >> THEN split(first[1]) ELSE first
        head  == parts[1]
        tail  == parts[2]
    IN  IF head # << >> /\ tail # << >> /\ ~exists(fs, head)
        THEN LET up == makedirs(fs, head)
             IN  IF ~up.ok /\ up.err # "EEXIST" THEN up
                 ELSE IF tail = <<".">>
                 THEN [ok |-> TRUE, fs |-> up.fs, err |-> ""]
                 ELSE mkdir(up.fs, name)
        ELSE mkdir(fs, name)

\* ensure_output_directory without the test of os.path.exists.
ensure_output_directory_Always(fs, output_dir) == makedirs(fs, output_dir)

\* ensure_output_directory(output_dir): nothing happens when the path
\* exists (whatever it is); otherwise makedirs, whose failure is raised as
\* 'Error creating output directory: ...'.
ensure_output_directory(fs, output_dir) ==
    IF ~exists(fs, output_dir)
    THEN makedirs(fs, output_dir)
    ELSE [ok |-> TRUE, fs |-> fs, err |-> ""]

\* ------------------------------------------------------------------ pipeline
\* Image.open(file_path) succeeds on a regular file holding an image.
CanOpen(fs, file_path) ==
    /\ exists(fs, file_path)
    /\ Entry(fs, file_path).kind = "file"
    /\ Entry(fs, file_path).img.format # ""

\* NormalizedMode without the flattening of the alpha modes.
NormalizedMode_KeepsAlpha(mode, output_format, original_format) ==
    IF mode # "RGB" /\ mode # "RGBA" THEN "RGB" ELSE mode

\* The colour mode after resize_image's normalisation (lines 39-45): alpha
\* modes are flattened onto white when the output is JPEG, every other mode
\* that is neither RGB nor RGBA is converted to RGB.
NormalizedMode(mode, output_format, original_format) ==
    IF /\ mode \in {"RGBA", "LA"}
       /\ \/ output_format = "JPG"
          \/ (output_format = None /\ original_format = "JPEG")
    THEN "RGB"
    ELSE IF mode # "RGB" /\ mode # "RGBA" THEN "RGB"
    ELSE mode

\* Image.resize((width, height)) raises ValueError unless both are positive.
ResizeOk(width, height) == width[1] > 0 /\ height[1] > 0

\* The modes PIL's encoder of a format writes.
EncoderAccepts(format, mode) ==
    IF format = "JPEG" THEN mode \in {"RGB", "L", "CMYK"} ELSE TRUE

\* open(output_path, "w+b"): the lookup must reach the last component, and
\* the path be an existing file or a new name in a writable directory.
CanWrite(fs, output_path) ==
    LET target == Resolve(fs, output_path)
    IN  /\ target # NoPath
        /\ output_path[Len(output_path)] # "/"
        /\ IF target \in DOMAIN fs THEN fs[target].kind = "file"
           ELSE fs[dirname(target)].writable

\* OutputPath writing next to the source file instead of into output_dir.
OutputPath_NextToSource(file_path, output_dir, output_format) ==
    LET base_name == splitext(basename(file_path))[1]
    IN  IF output_format = "JPG"
        THEN join(dirname(file_path), base_name \o <<".", "j", "p", "g">>)
        ELSE IF output_format = "PNG"
        THEN join(dirname(file_path), base_name \o <<".", "p", "n", "g">>)
        ELSE join(dirname(file_path),
                  base_name \o <<"_", "r", "e", "s", "i", "z", "e", "d">>
                            \o Lower(splitext(file_path)[2]))

\* OutputPath keeping the case of the source's extension.
OutputPath_KeepsCase(file_path, output_dir, output_format) ==
    LET base_name == splitext(basename(file_path))[1]
    IN  IF output_format = "JPG"
        THEN join(output_dir, base_name \o <<".", "j", "p", "g">>)
        ELSE IF output_format = "PNG"
        THEN join(output_dir, base_name \o <<".", "p", "n", "g">>)
        ELSE join(output_dir,
                  base_name \o <<"_", "r", "e", "s", "i", "z", "e", "d">>
                            \o splitext(file_path)[2])

\* The output path resize_image computes (lines 51-63).
OutputPath(file_path, output_dir, output_format) ==
    LET base_name == splitext(basename(file_path))[1]
    IN  IF output_format = "JPG"
        THEN join(output_dir, base_name \o <<".", "j", "p", "g">>)
        ELSE IF output_format = "PNG"
        THEN join(output_dir, base_name \o <<".", "p", "n", "g">>)
        ELSE join(output_dir,
                  base_name \o <<"_", "r", "e", "s", "i", "z", "e", "d">>
                            \o Lower(splitext(file_path)[2]))

\* resize_image(file_path, output_dir, width, height, output_format): the
\* path written, the image encoded and the file system after it, or
\* ok = FALSE when any step raised (re-raised as 'Error processing
\* <file_path>: ...').
resize_image(fs, file_path, output_dir, width, height, output_format) ==
    LET img             == Entry(fs, file_path).img
        original_format == IF output_format = None THEN img.format ELSE None
        mode            == NormalizedMode(img.mode, output_format, original_format)
        resized         == Truthy(width) /\ Truthy(height)
        size            == IF resized THEN <<width[1], height[1]>> ELSE img.size
        output_path     == OutputPath(file_path, output_dir, output_format)
        save_format     == IF output_format = "JPG" THEN "JPEG"
                           ELSE IF output_format = "PNG" THEN "PNG"
                           ELSE original_format
        encoded         == [format |-> save_format, mode |-> mode,
                            size |-> size]
        target          == Resolve(fs, output_path)
        failed          == [ok |-> FALSE, output_path |-> << >>, fs |-> fs,
                            img |-> NoImage]
    IN  IF ~CanOpen(fs, file_path) THEN failed
        ELSE IF resized /\ ~ResizeOk(width, height) THEN failed
        ELSE IF ~CanWrite(fs, output_path) THEN failed
        ELSE IF ~EncoderAccepts(save_format, mode)
        THEN \* Image.save has opened the file: one that existed is left
             \* empty, one it created is removed again.
             [failed EXCEPT !.fs = IF target \in DOMAIN fs
                                   THEN WriteEntry(fs, target, File(NoImage))
                                   ELSE fs]
        ELSE [ok |-> TRUE, output_path |-> output_path,
              fs |-> WriteEntry(fs, target, File(encoded)),
              img |-> encoded]

\* ensure_output_directory of src/utils/image_converter.py (lines 42-56):
\* the same test and the same call of os.makedirs.
image_converter_ensure_output_directory(fs, output_dir) ==
    IF ~exists(fs, output_dir)
    THEN makedirs(fs, output_dir)
    ELSE [ok |-> TRUE, fs |-> fs, err |-> ""]

\* convert_image(file_path, output_dir, width, height) of
\* src/utils/image_converter.py: alpha modes are pasted onto a white RGB
\* background, every other mode but RGB is converted to RGB, the image is
\* resized when width and height are both truthy, and it is saved as JPEG
\* under <output_dir>/<base>.jpg; ok = FALSE when any step raised (re-raised
\* as 'Error converting <file_path>: ...').
convert_image(fs, file_path, output_dir, width, height) ==
    LET img         == Entry(fs, file_path).img
        mode        == IF img.mode \in {"RGBA", "LA"} THEN "RGB"
                       ELSE IF img.mode # "RGB" THEN "RGB"
                       ELSE img.mode
        resized     == Truthy(width) /\ Truthy(height)
        size        == IF resized THEN <<width[1], height[1]>> ELSE img.size
        output_path == join(output_dir,
                            splitext(basename(file_path))[1]
                              \o <<".", "j", "p", "g">>)
        encoded     == [format |-> "JPEG", mode |-> mode, size |-> size]
        target      == Resolve(fs, output_path)
        failed      == [ok |-> FALSE, output_path |-> << >>, fs |-> fs,
                        img |-> NoImage]
    IN  IF ~CanOpen(fs, file_path) THEN failed
        ELSE IF resized /\ ~ResizeOk(width, height) THEN failed
        ELSE IF ~CanWrite(fs, output_path) THEN failed
        ELSE IF ~EncoderAccepts("JPEG", mode)
        THEN [failed EXCEPT !.fs = IF target \in DOMAIN fs
                                   THEN WriteEntry(fs, target, File(NoImage))
                                   ELSE fs]
        ELSE [ok |-> TRUE, output_path |-> output_path,
              fs |-> WriteEntry(fs, target, File(encoded)),
              img |-> encoded]

\* ------------------------------------------------------------------ state
VARIABLES
    fs,              \* the file system: path -> what it holds
    selected_files,  \* self.selected_files
    is_batch_mode,   \* self.is_batch_mode
    operation_mode,  \* self.operation_mode (the radio buttons)
    output_path,     \* text of the self.output_path entry
    progress_window, \* self.progress_window: "None", "open" (a Toplevel that
                     \* holds the grab) or "destroyed" (the attribute still
                     \* names a Toplevel the user has closed)
    dialog,          \* the dialog a handler is waiting in: "None",
                     \* "single" (askopenfilename) or "batch"
                     \* (askopenfilenames) of show_file_chooser,
                     \* "directory" (askdirectory) of browse_output_dir
    progress_label,  \* text of self.progress_label
    progress_bar,    \* self.progress_bar['value']
    status_label,    \* text of self.status_label
    messagebox,      \* the last messagebox.showerror and the thread that called it
    after_queue,     \* callbacks scheduled with master.after(0, ...), in order
    threads,         \* the worker threads started so far, each with its locals
    max_runs,        \* how many runs the user starts in this session
    main_thread,     \* where the main thread stands inside convert_files of
                     \* the Kivy application, with the handler's locals
    file_chooser,    \* the files the chooser of the open chooser popup has
                     \* listed (Kivy application)
    unnamed_popups,  \* open progress popups that self.progress_popup names
                     \* no longer (Kivy application)
    calls            \* the direct calls of the pipeline's functions, in order

vars == <<fs, selected_files, is_batch_mode, operation_mode, output_path,
          progress_window, dialog, progress_label, progress_bar, status_label,
          messagebox, after_queue, threads, max_runs, main_thread,
          file_chooser, unnamed_popups, calls>>

\* Thread ids: 0 is the Tk main thread, k >= 1 the k-th worker thread.
MainThread == 0

\* Texts the user types into the width and height entries, and the pairs
\* (width text, height text) the entries hold when Process is pressed. The
\* blanks in them are tab, line feed, no-break space (U+00A0, before a 2),
\* next line (U+0085, alone) and the separator U+001C (before a 2), which
\* strip() removes and int() does not skip.
SizeTexts == { << >>, <<"2">>, <<"\t", "2">>, <<" ", "2">>, <<"\n">>,
               <<"">>, <<"", "2">>, <<"1", "_", "0">>, <<"-", "1">>,
               <<"x">> }
SizeInputs ==
    { << <<" ", "2">>, <<"1", "_", "0">> >>, << <<"-", "1">>, <<"">> >>,
      << <<"x">>, << >> >>, << <<"2">>, <<"x">> >>,
      << <<"", "2">>, << >> >> }
\* Texts the user types into the output directory entry.
OutputTexts == { << >>, DefaultOutputDir, IN_DIR, BLOCKED, RO_NEW }
\* Paths the askdirectory dialog returns (<< >> when cancelled): a
\* directory, or a name typed into it that is no directory.
BrowseResults == { << >>, IN_DIR, BLOCKED }
\* What the file dialog returns (<< >> when cancelled).
ChooserChoices == { << >>, <<A_PNG>>, <<A_PNG, A_JPG>> }
\* Files a drop event can name.
DropFiles == {B_PNG}
\* A file an outside process may delete between selection and processing.
VolatileFiles == {A_PNG}

Label(kind, a, b, name) == [kind |-> kind, a |-> a, b |-> b, name |-> name]
Status(kind, a, b, text, dir) ==
    [kind |-> kind, a |-> a, b |-> b, text |-> text, dir |-> dir]
Box(kind, arg, thread) == [kind |-> kind, arg |-> arg, thread |-> thread]
Event(ev, a, b) == [ev |-> ev, a |-> a, b |-> b]

\* The main thread outside convert_files of the Kivy application.
Idle == [pc |-> "idle", output_dir |-> << >>, width |-> << >>,
         height |-> << >>]

\* The application after construction on the file system files, in a
\* session of so many runs.
StartedOn(files, runs) ==
    /\ fs = files
    /\ selected_files = << >>
    /\ is_batch_mode = FALSE
    /\ operation_mode = "convert"
    /\ output_path = DefaultOutputDir
    /\ progress_window = None
    /\ dialog = None
    /\ progress_label = Label("absent", 0, 0, << >>)
    /\ progress_bar = 0
    /\ status_label = Status("Ready", 0, 0, "", << >>)
    /\ messagebox = [kind |-> "none", arg |-> << >>, thread |-> MainThread]
    /\ after_queue = << >>
    /\ threads = << >>
    /\ max_runs = runs
    /\ main_thread = Idle
    /\ file_chooser = {}
    /\ unnamed_popups = 0
    /\ calls = << >>

Started(runs) == StartedOn(InitialFS, runs)

Init == Started(MaxRuns)

\* The main window takes no button press or key while the progress window
\* holds the grab (grab_set, line 487, until grab_release, line 594, or
\* until the window is destroyed), nor while a file dialog is open. In the
\* Kivy application it takes no touch while a popup is open, named by
\* self.progress_popup or not, nor while the main thread is in a handler.
Grabbed == progress_window = "open"
Busy ==
    \/ Grabbed
    \/ dialog # None
    \/ main_thread.pc # "idle"
    \/ unnamed_popups > 0

\* A worker thread that has not returned yet.
Live(t) == threads[t].pc \notin {"done", "crashed"}

\* What a specification follows: the user's actions while another run can
\* still be started, what reaches a running worker while one runs, and steps
\* that keep the number of runs and the length of the list within bounds.
CanStart == Len(threads) < max_runs
Watching == CanStart \/ \E t \in DOMAIN threads : Live(t)
Within == Len(threads') <= max_runs /\ Len(selected_files') <= MaxFiles

\* A modal error dialog is dismissed before the next handler runs.
NoBox == [kind |-> "none", arg |-> << >>, thread |-> MainThread]

\* list.extend on the object self.selected_files names: every worker whose
\* 'files' argument is that same object sees the new items.
ExtendedThreads(new) ==
    [t \in DOMAIN threads |->
        IF threads[t].shared THEN [threads[t] EXCEPT !.files = @ \o new]
        ELSE threads[t]]

\* self.selected_files = <a new list>: the workers keep the old object.
ReboundThreads ==
    [t \in DOMAIN threads |-> [threads[t] EXCEPT !.shared = FALSE]]

\* ------------------------------------------------------------------ selection
PNG_EXT  == <<".", "p", "n", "g">>
JPG_EXT  == <<".", "j", "p", "g">>
JPEG_EXT == <<".", "j", "p", "e", "g">>

\* What askopenfilename(s) can return: existing regular files, none when the
\* dialog is cancelled. The file types of the operation mode (lines 361-367)
\* only set what the dialog displays: a name typed into it is returned
\* whatever its extension.
ChooserResult(file_paths) ==
    \A k \in DOMAIN file_paths :
        exists(fs, file_paths[k]) /\ Entry(fs, file_paths[k]).kind = "file"

\* show_file_chooser(is_batch_mode) up to the dialog (lines 358-370 or 381):
\* the flag is set and the dialog opens. The dialog runs the event loop
\* until it returns: scheduled callbacks and drops are handled meanwhile,
\* the main window's buttons are not.
show_file_chooser(batch) ==
    /\ ~Busy
    /\ is_batch_mode' = batch
    /\ dialog' = IF batch THEN "batch" ELSE "single"
    /\ messagebox' = NoBox
    /\ UNCHANGED <<max_runs, main_thread, file_chooser, unnamed_popups, calls,
                   fs, selected_files, operation_mode, output_path,
                   progress_window, progress_label, progress_bar, status_label,
                   after_queue, threads>>

\* show_file_chooser from the return of the dialog (lines 374-378 or
\* 385-387), the dialog returning file_paths (one path at most in single
\* mode).
file_chooser_returns(file_paths) ==
    /\ dialog \in {"single", "batch"}
    /\ ChooserResult(file_paths)
    /\ dialog = "batch" \/ Len(file_paths) <= 1
    /\ dialog' = None
    /\ IF file_paths = << >>
       THEN UNCHANGED <<selected_files, threads>>
       ELSE IF dialog = "batch"
       THEN IF is_batch_mode
            THEN /\ selected_files' = selected_files \o file_paths
                 /\ threads' = ExtendedThreads(file_paths)
            ELSE /\ selected_files' = file_paths
                 /\ threads' = ReboundThreads
       ELSE /\ selected_files' = <<file_paths[1]>>
            /\ threads' = ReboundThreads
    /\ UNCHANGED <<max_runs, main_thread, file_chooser, unnamed_popups, calls,
                   fs, is_batch_mode, operation_mode, output_path,
                   progress_window, progress_label, progress_bar, status_label,
                   messagebox, after_queue>>

\* _on_drop(event), files being what _parse_drop_data returns (one path on
\* macOS and Linux). A drop is delivered by the platform's drag-and-drop
\* protocol, whether or not a window holds the grab.
on_drop(files) ==
    LET filtered_files ==
            IF operation_mode = "convert"
            THEN SelectSeq(files, LAMBDA f : EndsWith(Lower(f), PNG_EXT))
            ELSE SelectSeq(files, LAMBDA f : \/ EndsWith(Lower(f), JPG_EXT)
                                            \/ EndsWith(Lower(f), JPEG_EXT))
    IN  /\ files # << >>
        /\ IF filtered_files = << >>
           THEN /\ messagebox' = Box("Please drop files of the mode only",
                                     << >>, MainThread)
                /\ UNCHANGED <<selected_files, threads>>
           ELSE /\ IF is_batch_mode
                   THEN /\ selected_files' = selected_files \o filtered_files
                        /\ threads' = ExtendedThreads(filtered_files)
                   ELSE /\ selected_files' = filtered_files
                        /\ threads' = ReboundThreads
                /\ messagebox' = NoBox
        /\ UNCHANGED <<max_runs, main_thread, file_chooser, unnamed_popups,
                       calls, dialog, fs, is_batch_mode, operation_mode,
                       output_path, progress_window, progress_label,
                       progress_bar, status_label, after_queue>>

\* clear_selected_files()
clear_selected_files ==
    /\ ~Busy
    /\ selected_files # << >>
    /\ selected_files' = << >>
    /\ threads' = ReboundThreads
    /\ status_label' = Status("File selection cleared", 0, 0, "", << >>)
    /\ messagebox' = NoBox
    /\ UNCHANGED <<max_runs, main_thread, file_chooser, unnamed_popups, calls,
                   dialog, fs, is_batch_mode, operation_mode, output_path,
                   progress_window, progress_label, progress_bar, after_queue>>

\* The user picks a radio button of the operation mode.
set_operation_mode(mode) ==
    /\ ~Busy
    /\ mode \in {"convert", "resize_jpg"}
    /\ mode # operation_mode
    /\ operation_mode' = mode
    /\ messagebox' = NoBox
    /\ UNCHANGED <<max_runs, main_thread, file_chooser, unnamed_popups, calls,
                   dialog, fs, selected_files, is_batch_mode, output_path,
                   progress_window, progress_label, progress_bar, status_label,
                   after_queue, threads>>

\* The user edits the output directory entry.
type_output_path(text) ==
    /\ ~Busy
    /\ text # output_path
    /\ output_path' = text
    /\ messagebox' = NoBox
    /\ UNCHANGED <<max_runs, main_thread, file_chooser, unnamed_popups, calls,
                   dialog, fs, selected_files, is_batch_mode, operation_mode,
                   progress_window, progress_label, progress_bar, status_label,
                   after_queue, threads>>

\* browse_output_dir() up to the dialog (line 444): the directory dialog
\* opens. Like the file dialog it runs the event loop until it returns:
\* scheduled callbacks and drops are handled meanwhile, the main window's
\* buttons and entries are not.
browse_output_dir ==
    /\ ~Busy
    /\ dialog' = "directory"
    /\ messagebox' = NoBox
    /\ UNCHANGED <<max_runs, main_thread, file_chooser, unnamed_popups, calls,
                   fs, selected_files, is_batch_mode, operation_mode,
                   output_path, progress_window, progress_label, progress_bar,
                   status_label, after_queue, threads>>

\* browse_output_dir from the return of the dialog (lines 448-450), the
\* dialog returning directory (<< >> when cancelled): whatever path it
\* returns replaces the text of the entry.
directory_chooser_returns(directory) ==
    /\ dialog = "directory"
    /\ dialog' = None
    /\ output_path' = IF directory # << >> THEN directory ELSE output_path
    /\ UNCHANGED <<max_runs, main_thread, file_chooser, unnamed_popups, calls,
                   fs, selected_files, is_batch_mode, operation_mode,
                   progress_window, progress_label, progress_bar, status_label,
                   messagebox, after_queue, threads>>

\* A running worker has still to look at the file f.
Awaited(f) ==
    \E t \in DOMAIN threads :
        /\ threads[t].pc \in {"start", "loop", "body", "resize", "tick"}
        /\ \E k \in 1..Len(threads[t].files) :
              /\ threads[t].files[k] = f
              /\ IF threads[t].pc \in {"body", "resize"}
                 THEN k >= threads[t].i
                 ELSE k > threads[t].i

\* An outside process deletes the file f.
vanish(f) ==
    /\ f \in DOMAIN fs /\ fs[f].kind = "file"
    /\ fs' = [q \in DOMAIN fs \ {f} |-> fs[q]]
    /\ UNCHANGED <<max_runs, main_thread, file_chooser, unnamed_popups, calls,
                   dialog, selected_files, is_batch_mode, operation_mode,
                   output_path, progress_window, progress_label, progress_bar,
                   status_label, messagebox, after_queue, threads>>

\* ------------------------------------------------------------------ process
\* int(entry.get()) if entry.get().strip() else None (lines 472-473).
ParsedSize(text) ==
    IF Strip(text) # << >>
    THEN [ok |-> PyInt(text).ok, value |-> SomeInt(PyInt(text).value)]
    ELSE [ok |-> TRUE, value |-> NoInt]

\* A callback scheduled with master.after(0, ...).
Callback(cb, label, percent, status) ==
    [cb |-> cb, label |-> label, percent |-> percent, status |-> status]

NoLabel == Label("absent", 0, 0, << >>)
NoStatus == Status("Ready", 0, 0, "", << >>)

\* The locals of a worker thread when threading.Thread(...).start() returns:
\* 'files' is the list object self.selected_files names, not a copy ('shared'
\* says that self.selected_files still names that object). The last fields
\* record the run: the list as given, the paths the loop fetched, the indices
\* resize_image was called for, those it returned a path for, the paths it
\* returned with the images saved there, and the callbacks the thread
\* emitted.
NewThread(files, output_dir, width, height, operation) ==
    [pc |-> "start", files |-> files, shared |-> TRUE,
     output_dir |-> output_dir, width |-> width, height |-> height,
     operation |-> operation, total_files |-> 0,
     successful_conversions |-> 0, i |-> 0, operation_text |-> "unbound",
     given |-> files, processed |-> << >>, called |-> << >>, oks |-> << >>,
     written |-> << >>, saved |-> << >>, emitted |-> << >>]

\* process_files(), the width and height entries holding the given texts.
process_files(width_text, height_text) ==
    LET stripped   == Strip(output_path)
        output_dir == IF stripped = << >> THEN DefaultOutputDir ELSE stripped
        entry      == IF stripped = << >> THEN DefaultOutputDir ELSE output_path
        ensured    == ensure_output_directory(fs, output_dir)
        width      == ParsedSize(width_text)
        height     == ParsedSize(height_text)
    IN  /\ ~Busy
        /\ IF selected_files = << >>
           THEN /\ messagebox' = Box("Please select at least one file", << >>,
                                     MainThread)
                /\ UNCHANGED <<fs, output_path, progress_window,
                               progress_label, progress_bar, threads>>
           ELSE IF ~ensured.ok
           THEN /\ messagebox' = Box("Error creating output directory",
                                     output_dir, MainThread)
                /\ output_path' = entry
                /\ fs' = ensured.fs
                /\ UNCHANGED <<progress_window, progress_label, progress_bar,
                               threads>>
           ELSE IF ~(width.ok /\ height.ok)
           THEN /\ messagebox' = Box("Please enter valid numbers", << >>,
                                     MainThread)
                /\ output_path' = entry
                /\ fs' = ensured.fs
                /\ UNCHANGED <<progress_window, progress_label, progress_bar,
                               threads>>
           ELSE /\ output_path' = entry
                /\ fs' = ensured.fs
                /\ progress_window' = "open"
                /\ progress_label' = Label("Processing files...", 0, 0, << >>)
                /\ progress_bar' = 0
                /\ threads' = Append(threads,
                                     NewThread(selected_files, output_dir,
                                               width.value, height.value,
                                               operation_mode))
                /\ messagebox' = NoBox
        /\ UNCHANGED <<max_runs, main_thread, file_chooser, unnamed_popups,
                       calls, dialog, selected_files, is_batch_mode,
                       operation_mode, status_label, after_queue>>

\* The user closes the progress window with the window manager's button:
\* no handler is set for it (lines 482-487), so Tk destroys the Toplevel,
\* which ends its grab, and the label and the bar in it;
\* self.progress_window keeps naming it.
close_button ==
    /\ progress_window = "open"
    /\ progress_window' = "destroyed"
    /\ progress_label' = NoLabel
    /\ progress_bar' = 0
    /\ UNCHANGED <<max_runs, main_thread, file_chooser, unnamed_popups, calls,
                   dialog, fs, selected_files, is_batch_mode, operation_mode,
                   output_path, status_label, messagebox, after_queue,
                   threads>>

\* ------------------------------------------------------------------ worker
\* process_files_thread, lines 527-528: the locals before the loop.
thread_start(t) ==
    /\ threads[t].pc = "start"
    /\ threads' = [threads EXCEPT ![t] =
            [@ EXCEPT !.pc = "loop",
                      !.total_files = Len(threads[t].files),
                      !.successful_conversions = 0]]
    /\ UNCHANGED <<max_runs, main_thread, file_chooser, unnamed_popups, calls,
                   dialog, fs, selected_files, is_batch_mode, operation_mode,
                   output_path, progress_window, progress_label, progress_bar,
                   status_label, messagebox, after_queue>>

\* 2^n modulo 25 (the powers of two repeat modulo 25 with period 20).
RECURSIVE Pow2Mod25(_)
Pow2Mod25(n) == IF n % 20 = 0 THEN 1 ELSE (2 * Pow2Mod25((n % 20) - 1)) % 25

\* The binary exponent e of k / 100 for k > 0, with m = k / 2^(e - exp), the
\* whole part of it in the case exp < e: 100 <= m < 200, that is
\* 2^e <= k / 100 < 2^(e+1).
RECURSIVE Normal(_, _)
Normal(m, exp) ==
    IF m >= 200 THEN Normal(m \div 2, exp + 1)
    ELSE IF m < 100 THEN Normal(2 * m, exp - 1)
    ELSE [m |-> m, e |-> exp]

\* The double k / 100 * 100 is below the whole number k. Python's true
\* division rounds k / 100 to the nearest double of 53 bits; the quotient
\* falls short of k / 100 by r / 25 units of its last place, r being
\* k * 2^(50 - e) modulo 25, when r <= 12. The product with 100 is then
\* below k by r / 16 units of the last place of k when k < 128 * 2^e (by
\* r / 32 otherwise), and is rounded to the double below k when that is
\* more than half a unit: for r from 9 to 12.
FloatShort(k) ==
    /\ k > 0
    /\ LET n == Normal(k, 0)
           r == ((k % 25) * Pow2Mod25(50 - n.e)) % 25
       IN  n.m < 128 /\ r \in 9..12

\* int(x / total_files * 100) of lines 533 and 554, in double arithmetic: the
\* quotient is the double nearest to x / total_files, so the result is
\* floor(100 x / total_files), or one less where 100 x / total_files is a
\* whole number k with FloatShort(k) (int(29 / 50 * 100) is 57,
\* int(51 / 5 * 100) is 1019).
Percent(x, total_files) ==
    LET n == x * 100
        k == n \div total_files
    IN  IF n % total_files = 0 /\ FloatShort(k) THEN k - 1 ELSE k

\* The start tick of the file at 1-based index i (lines 533-534): the
\* percentage counts the i - 1 files before it.
StartTick(i, total_files) == Event("tick", i - 1, total_files)

\* AfterFile with the try/except around the whole loop: the first error ends
\* the loop.
AfterFile_ErrorEndsLoop(ok) == IF ok THEN "loop" ELSE "close"

\* Where the thread goes on after a file: the try/except lies inside the for
\* loop (lines 530-558), so after an error as after a success the loop
\* fetches the next file.
AfterFile(ok) == "loop"

\* Lines 530-534: the list iterator yields the next item while its index is
\* below the list's current length, and the start tick is scheduled.
thread_next(t) ==
    LET th == threads[t]
        i  == th.i + 1
    IN  /\ th.pc = "loop"
        /\ IF th.i < Len(th.files)
           THEN /\ threads' = [threads EXCEPT ![t] =
                        [@ EXCEPT !.pc = "body", !.i = i,
                                  !.processed = Append(@, th.files[i]),
                                  !.emitted = Append(@,
                                      StartTick(i, th.total_files))]]
                /\ after_queue' = Append(after_queue,
                        Callback("_update_progress_ui",
                                 Label("Processing", i, th.total_files,
                                       basename(th.files[i])),
                                 Percent(i - 1, th.total_files), NoStatus))
           ELSE /\ threads' = [threads EXCEPT ![t] = [@ EXCEPT !.pc = "close"]]
                /\ UNCHANGED after_queue
        /\ UNCHANGED <<max_runs, main_thread, file_chooser, unnamed_popups,
                       calls, dialog, fs, selected_files, is_batch_mode,
                       operation_mode, output_path, progress_window,
                       progress_label, progress_bar, status_label, messagebox>>

\* The output_format process_files_thread passes for an operation.
FormatOf(operation) == IF operation = "convert" THEN "JPG" ELSE None
TextOf(operation) == IF operation = "convert" THEN "converted" ELSE "resized"

\* Lines 536-539: the existence check of one file. show_error is called
\* here, on the worker thread.
thread_body(t) ==
    LET th        == threads[t]
        file_path == th.files[th.i]
    IN  /\ th.pc = "body"
        /\ IF ~exists(fs, file_path)
           THEN /\ messagebox' = Box("File not found", file_path, t)
                /\ threads' = [threads EXCEPT ![t] =
                        [@ EXCEPT !.pc = AfterFile(FALSE),
                                  !.emitted = Append(@, Event("error", th.i, 0))]]
           ELSE /\ threads' = [threads EXCEPT ![t] = [@ EXCEPT !.pc = "resize"]]
                /\ UNCHANGED messagebox
        /\ UNCHANGED <<max_runs, main_thread, file_chooser, unnamed_popups,
                       calls, dialog, fs, after_queue, selected_files,
                       is_batch_mode, operation_mode, output_path,
                       progress_window, progress_label, progress_bar,
                       status_label>>

\* Lines 541-551 and 557-558: the pipeline on the file and its outcome; the
\* file is looked up again by Image.open. After resize_image has written
\* the output the locals operation_text and successful_conversions are
\* set; the completed tick of lines 554-555 is a later step, other threads
\* and the main loop run between the two. show_error is called here, on
\* the worker thread.
thread_resize(t) ==
    LET th        == threads[t]
        file_path == th.files[th.i]
        done      == resize_image(fs, file_path, th.output_dir, th.width,
                                  th.height, FormatOf(th.operation))
    IN  /\ th.pc = "resize"
        /\ fs' = done.fs
        /\ IF done.ok
           THEN /\ threads' = [threads EXCEPT ![t] =
                        [@ EXCEPT !.pc = "tick",
                                  !.operation_text = TextOf(th.operation),
                                  !.successful_conversions = @ + 1,
                                  !.called = Append(@, th.i),
                                  !.oks = Append(@, th.i),
                                  !.written = Append(@, done.output_path),
                                  !.saved = Append(@, done.img)]]
                /\ UNCHANGED messagebox
           ELSE /\ messagebox' = Box("Error processing", basename(file_path), t)
                /\ threads' = [threads EXCEPT ![t] =
                        [@ EXCEPT !.pc = AfterFile(FALSE),
                                  !.called = Append(@, th.i),
                                  !.emitted = Append(@, Event("error", th.i, 1))]]
        /\ UNCHANGED <<max_runs, main_thread, file_chooser, unnamed_popups,
                       calls, dialog, after_queue, selected_files,
                       is_batch_mode, operation_mode, output_path,
                       progress_window, progress_label, progress_bar,
                       status_label>>

\* Lines 554-555: the completed tick of the file just written is scheduled
\* with master.after, which returns when the main loop has taken the call;
\* the callbacks lie in the queue in the order the main loop took them.
thread_tick(t) ==
    LET th        == threads[t]
        file_path == th.files[th.i]
    IN  /\ th.pc = "tick"
        /\ threads' = [threads EXCEPT ![t] =
                [@ EXCEPT !.pc = AfterFile(TRUE),
                          !.emitted = Append(@,
                              Event("tick", th.i, th.total_files))]]
        /\ after_queue' = Append(after_queue,
                Callback("_update_progress_ui",
                         Label("Processing", th.i, th.total_files,
                               basename(file_path)),
                         Percent(th.i, th.total_files), NoStatus))
        /\ UNCHANGED <<max_runs, main_thread, file_chooser, unnamed_popups,
                       calls, dialog, fs, selected_files, is_batch_mode,
                       operation_mode, output_path, progress_window,
                       progress_label, progress_bar, status_label, messagebox>>

\* Line 561: close_progress_window() schedules the closing.
thread_close(t) ==
    /\ threads[t].pc = "close"
    /\ threads' = [threads EXCEPT ![t] =
            [@ EXCEPT !.pc = "complete",
                      !.emitted = Append(@, Event("close", 0, 0))]]
    /\ after_queue' = Append(after_queue,
            Callback("_close_progress_window_ui", NoLabel, 0, NoStatus))
    /\ UNCHANGED <<max_runs, main_thread, file_chooser, unnamed_popups, calls,
                   dialog, fs, selected_files, is_batch_mode, operation_mode,
                   output_path, progress_window, progress_label, progress_bar,
                   status_label, messagebox>>

\* Lines 564-565: the status text is formatted, which raises
\* UnboundLocalError when no file succeeded (operation_text was never
\* assigned) and ends the thread; otherwise _complete_processing is
\* scheduled. The thread's reference to the list ends with it.
thread_complete(t) ==
    LET th == threads[t]
    IN  /\ th.pc = "complete"
        /\ IF th.operation_text = "unbound"
           THEN /\ threads' = [threads EXCEPT ![t] =
                        [@ EXCEPT !.pc = "crashed", !.shared = FALSE]]
                /\ UNCHANGED after_queue
           ELSE /\ threads' = [threads EXCEPT ![t] =
                        [@ EXCEPT !.pc = "done", !.shared = FALSE,
                                  !.emitted = Append(@,
                                      Event("complete",
                                            th.successful_conversions,
                                            th.total_files))]]
                /\ after_queue' = Append(after_queue,
                        Callback("_complete_processing", NoLabel, 0,
                                 Status("Processing complete!",
                                        th.successful_conversions,
                                        th.total_files, th.operation_text,
                                        th.output_dir)))
        /\ UNCHANGED <<max_runs, main_thread, file_chooser, unnamed_popups,
                       calls, dialog, fs, selected_files, is_batch_mode,
                       operation_mode, output_path, progress_window,
                       progress_label, progress_bar, status_label, messagebox>>

\* ------------------------------------------------------------------ event loop
\* The Tk main loop runs the oldest scheduled callback on the main thread:
\* _update_progress_ui (lines 580-585; configuring a destroyed widget raises
\* TclError inside the callback and changes nothing),
\* _close_progress_window_ui (591-596; releasing the grab of and destroying
\* a window that is gone already does nothing) or _complete_processing
\* (567-574).
deliver ==
    /\ after_queue # << >>
    /\ after_queue' = Tail(after_queue)
    /\ LET c == Head(after_queue)
       IN  IF c.cb = "_update_progress_ui"
           THEN /\ IF progress_window = "open"
                   THEN /\ progress_label' = c.label
                        /\ progress_bar' = c.percent
                   ELSE UNCHANGED <<progress_label, progress_bar>>
                /\ UNCHANGED <<progress_window, status_label, selected_files,
                               threads>>
           ELSE IF c.cb = "_close_progress_window_ui"
           THEN /\ progress_window' = None
                /\ IF progress_window = None
                   THEN UNCHANGED <<progress_label, progress_bar>>
                   ELSE progress_label' = NoLabel /\ progress_bar' = 0
                /\ UNCHANGED <<status_label, selected_files, threads>>
           ELSE /\ status_label' = c.status
                /\ selected_files' = << >>
                /\ threads' = ReboundThreads
                /\ UNCHANGED <<progress_window, progress_label, progress_bar>>
    /\ UNCHANGED <<max_runs, main_thread, file_chooser, unnamed_popups, calls,
                   dialog, fs, is_batch_mode, operation_mode, output_path,
                   messagebox>>

\* ------------------------------------------------------------------ spec
Next ==
    \/ \E batch \in BOOLEAN : CanStart /\ show_file_chooser(batch)
    \/ \E file_paths \in ChooserChoices :
           file_chooser_returns(file_paths) /\ Within
    \/ \E f \in DropFiles : Watching /\ on_drop(<<f>>) /\ Within
    \/ CanStart /\ clear_selected_files
    \/ \E mode \in {"convert", "resize_jpg"} :
           CanStart /\ set_operation_mode(mode)
    \/ \E text \in OutputTexts : CanStart /\ type_output_path(text)
    \/ CanStart /\ browse_output_dir
    \/ \E directory \in BrowseResults : directory_chooser_returns(directory)
    \/ \E f \in VolatileFiles : Awaited(f) /\ vanish(f)
    \/ \E size \in SizeInputs : process_files(size[1], size[2]) /\ Within
    \/ close_button
    \/ \E t \in DOMAIN threads : thread_start(t)
    \/ \E t \in DOMAIN threads : thread_next(t)
    \/ \E t \in DOMAIN threads : thread_body(t)
    \/ \E t \in DOMAIN threads : thread_resize(t)
    \/ \E t \in DOMAIN threads : thread_tick(t)
    \/ \E t \in DOMAIN threads : thread_close(t)
    \/ \E t \in DOMAIN threads : thread_complete(t)
    \/ deliver

Spec == Init /\ [][Next]_vars

\* ------------------------------------------------------------------ second run
\* A session in which the user selects a.png or drops b.png, browses to the
\* directory of the sources, leaves the size entries empty and presses
\* Process up to MaxReruns times.
RerunInit == Started(MaxReruns)

\* What the file dialog returns in a session of several runs.
RerunChoices == { <<A_PNG>>, <<A_JPG>> }

RerunNext ==
    \/ CanStart /\ show_file_chooser(FALSE)
    \/ \E file_paths \in RerunChoices : file_chooser_returns(file_paths)
    \/ CanStart /\ browse_output_dir
    \/ directory_chooser_returns(IN_DIR)
    \/ Watching /\ on_drop(<<B_PNG>>) /\ Within
    \/ process_files(<< >>, << >>) /\ Within
    \/ close_button
    \/ \E t \in DOMAIN threads : thread_start(t)
    \/ \E t \in DOMAIN threads : thread_next(t)
    \/ \E t \in DOMAIN threads : thread_body(t)
    \/ \E t \in DOMAIN threads : thread_resize(t)
    \/ \E t \in DOMAIN threads : thread_tick(t)
    \/ \E t \in DOMAIN threads : thread_close(t)
    \/ \E t \in DOMAIN threads : thread_complete(t)
    \/ deliver

RerunSpec == RerunInit /\ [][RerunNext]_vars

\* A session in which the user picks one file in the dialog of the current
\* mode, changes the mode, browses to the directory of the sources, leaves
\* the size entries empty and presses Process up to MaxReruns times: what a
\* run writes can be selected for the next.
ReselectNext ==
    \/ CanStart /\ show_file_chooser(FALSE)
    \/ \E f \in DOMAIN fs : file_chooser_returns(<<f>>)
    \/ \E mode \in {"convert", "resize_jpg"} :
           CanStart /\ set_operation_mode(mode)
    \/ CanStart /\ browse_output_dir
    \/ directory_chooser_returns(IN_DIR)
    \/ process_files(<< >>, << >>) /\ Within
    \/ \E t \in DOMAIN threads : thread_start(t)
    \/ \E t \in DOMAIN threads : thread_next(t)
    \/ \E t \in DOMAIN threads : thread_body(t)
    \/ \E t \in DOMAIN threads : thread_resize(t)
    \/ \E t \in DOMAIN threads : thread_tick(t)
    \/ \E t \in DOMAIN threads : thread_close(t)
    \/ \E t \in DOMAIN threads : thread_complete(t)
    \/ deliver

ReselectSpec == RerunInit /\ [][ReselectNext]_vars

\* ------------------------------------------------------------------ Kivy application
\* PngToJpgConverter of src/ui/converter.py, the Kivy application. Its state
\* is held in the variables of the same names (selected_files,
\* is_batch_mode, output_path for self.output_path.text, status_label,
\* progress_label, threads); dialog is "popup" while self.file_chooser_popup
\* is open, and file_chooser then holds what its chooser lists;
\* progress_window stands for self.progress_popup ("created": a Popup that
\* has not been opened yet; "destroyed": a Popup that has been dismissed, the
\* attribute still names it); messagebox is the last popup of show_error
\* with the thread that opened it. The handlers run on the main thread,
\* one at a time, and the worker threads run between any two lines of
\* them: main_thread is the line convert_files stands at. This application
\* schedules nothing: after_queue stays empty.

\* Texts of the width and height inputs when Convert is pressed.
KivySizeInputs ==
    { << << >>, << >> >>, << <<"2">>, <<"1", "_", "0">> >>,
      << <<"2">>, <<"x">> >> }
\* Texts the user types into the output directory input.
KivyOutputTexts == { << >>, DefaultOutputDir, BLOCKED }
\* A file the chooser does not show.
H_PNG == <<"/", "i", "n", "/", ".", "h", ".", "p", "n", "g">>
\* What the user has selected in the chooser when Select is pressed.
SelectionChoices == { << >>, <<A_PNG>>, <<A_PNG, B_PNG>>, <<H_PNG>> }

\* The file system when the Kivy application starts: a hidden PNG file lies
\* next to the others.
KivyFS == (H_PNG :> File(Img("PNG", "RGB", 2, 2))) @@ InitialFS

\* fnmatch(name, '*.png') on a POSIX system: the case counts.
MatchesPng(f) == EndsWith(f, PNG_EXT)

\* A file the chooser leaves out with show_hidden=False (line 271): its name
\* starts with a dot.
Hidden(f) == basename(f) # << >> /\ Head(basename(f)) = "."

\* The files a chooser made with filters=['*.png'], show_hidden=False (lines
\* 268-273) shows in the directories of the file system files: the regular
\* files whose names match the filter and are not hidden.
Listing(files) ==
    {f \in DOMAIN files :
        files[f].kind = "file" /\ MatchesPng(f) /\ ~Hidden(f)}

\* What file_chooser.selection can hold when Select is pressed
\* (multiselect=True, line 272): any number of different files among those
\* the chooser has listed, whether they still exist or not.
Selection(selection) ==
    /\ \A k \in DOMAIN selection : selection[k] \in file_chooser
    /\ \A j \in DOMAIN selection, k \in DOMAIN selection :
          selection[j] = selection[k] => j = k

\* show_file_chooser, bound to the batch button and to the single-file
\* button (lines 263-295): the flag is set and the popup opens with a new
\* chooser. A widget of the main layout takes a touch only when no popup
\* covers it and the main thread is in no handler.
PngToJpgConverter_show_file_chooser(batch) ==
    /\ ~Busy
    /\ is_batch_mode' = batch
    /\ dialog' = "popup"
    /\ file_chooser' = Listing(fs)
    /\ messagebox' = NoBox
    /\ UNCHANGED <<max_runs, main_thread, unnamed_popups, calls, fs,
                   selected_files, operation_mode, output_path,
                   progress_window, progress_label, progress_bar, status_label,
                   after_queue, threads>>

\* select_files(file_chooser), the Select button of the chooser popup (lines
\* 297-317): in batch mode the list is extended by the selection, otherwise
\* self.selected_files becomes the selection list itself; the popup closes.
\* The handler does not look at the file system.
select_files(selection) ==
    /\ dialog = "popup"
    /\ Selection(selection)
    /\ IF is_batch_mode
       THEN /\ selected_files' = selected_files \o selection
            /\ threads' = ExtendedThreads(selection)
       ELSE /\ selected_files' = selection
            /\ threads' = ReboundThreads
    /\ dialog' = None
    /\ file_chooser' = {}
    /\ UNCHANGED <<max_runs, main_thread, unnamed_popups, calls, fs,
                   is_batch_mode, operation_mode, output_path, progress_window,
                   progress_label, progress_bar, status_label, messagebox,
                   after_queue>>

\* The Cancel button of the chooser popup (line 280), or a touch outside
\* the popup: the popup closes.
cancel_file_chooser ==
    /\ dialog = "popup"
    /\ dialog' = None
    /\ file_chooser' = {}
    /\ UNCHANGED <<max_runs, main_thread, unnamed_popups, calls, fs,
                   selected_files, is_batch_mode, operation_mode, output_path,
                   progress_window, progress_label, progress_bar, status_label,
                   messagebox, after_queue, threads>>

\* The user edits the output directory input (lines 205-213 of the layout).
edit_output_path(text) ==
    /\ ~Busy
    /\ text # output_path
    /\ output_path' = text
    /\ messagebox' = NoBox
    /\ UNCHANGED <<max_runs, main_thread, file_chooser, unnamed_popups, calls,
                   dialog, fs, selected_files, is_batch_mode, operation_mode,
                   progress_window, progress_label, progress_bar, status_label,
                   after_queue, threads>>

\* convert_files, the width and height inputs holding the given texts, up
\* to the label of show_progress_popup (lines 319-345 and 381-385): the
\* checks, the output directory, the sizes, and the new progress label.
convert_files(width_text, height_text) ==
    LET stripped   == Strip(output_path)
        output_dir == IF stripped = << >> THEN DefaultOutputDir ELSE stripped
        entry      == IF stripped = << >> THEN DefaultOutputDir ELSE output_path
        ensured    == image_converter_ensure_output_directory(fs, output_dir)
        width      == ParsedSize(width_text)
        height     == ParsedSize(height_text)
    IN  /\ ~Busy
        /\ IF selected_files = << >>
           THEN /\ messagebox' = Box("Please select at least one PNG file",
                                     << >>, MainThread)
                /\ UNCHANGED <<fs, output_path, progress_label, main_thread>>
           ELSE IF ~ensured.ok
           THEN /\ messagebox' = Box("Error creating output directory",
                                     output_dir, MainThread)
                /\ output_path' = entry
                /\ fs' = ensured.fs
                /\ UNCHANGED <<progress_label, main_thread>>
           ELSE IF ~(width.ok /\ height.ok)
           THEN /\ messagebox' = Box("Please enter valid numbers", << >>,
                                     MainThread)
                /\ output_path' = entry
                /\ fs' = ensured.fs
                /\ UNCHANGED <<progress_label, main_thread>>
           ELSE /\ output_path' = entry
                /\ fs' = ensured.fs
                /\ progress_label' = Label("Converting files...", 0, 0, << >>)
                /\ main_thread' = [pc |-> "popup", output_dir |-> output_dir,
                                   width |-> width.value,
                                   height |-> height.value]
                /\ messagebox' = NoBox
        /\ UNCHANGED <<max_runs, file_chooser, unnamed_popups, calls, dialog,
                       selected_files, is_batch_mode, operation_mode,
                       progress_window, progress_bar, status_label,
                       after_queue, threads>>

\* show_progress_popup, lines 387-391: self.progress_popup names a new
\* Popup, not opened yet. A popup the attribute named before stays as it
\* is, open if it was open.
show_progress_popup ==
    /\ main_thread.pc = "popup"
    /\ progress_window' = "created"
    /\ unnamed_popups' = unnamed_popups
                           + (IF progress_window = "open" THEN 1 ELSE 0)
    /\ main_thread' = [main_thread EXCEPT !.pc = "open"]
    /\ UNCHANGED <<max_runs, file_chooser, calls, dialog, fs, selected_files,
                   is_batch_mode, operation_mode, output_path,
                   progress_label, progress_bar, status_label, messagebox,
                   after_queue, threads>>

\* show_progress_popup, line 392: self.progress_popup is read again and the
\* popup it names is opened. When a worker has set the attribute to None in
\* between (line 403), None.open() raises AttributeError: the exception
\* leaves the handler and the Kivy event loop, no thread is started and the
\* application takes no further event.
show_progress_popup_open ==
    /\ main_thread.pc = "open"
    /\ IF progress_window = None
       THEN /\ main_thread' = [main_thread EXCEPT !.pc = "crashed"]
            /\ UNCHANGED progress_window
       ELSE /\ main_thread' = [main_thread EXCEPT !.pc = "thread"]
            /\ progress_window' = "open"
    /\ UNCHANGED <<max_runs, file_chooser, unnamed_popups, calls, dialog, fs,
                   selected_files, is_batch_mode, operation_mode,
                   output_path, progress_label, progress_bar, status_label,
                   messagebox, after_queue, threads>>

\* convert_files, lines 348-353: the worker thread is started on the list
\* self.selected_files names and on the handler's locals; the handler
\* returns.
convert_files_start ==
    /\ main_thread.pc = "thread"
    /\ threads' = Append(threads,
                         NewThread(selected_files, main_thread.output_dir,
                                   main_thread.width, main_thread.height,
                                   "convert"))
    /\ main_thread' = Idle
    /\ UNCHANGED <<max_runs, file_chooser, unnamed_popups, calls, dialog, fs,
                   selected_files, is_batch_mode, operation_mode,
                   output_path, progress_window, progress_label,
                   progress_bar, status_label, messagebox, after_queue>>

\* The user touches the window outside the progress popup: a Popup closes on
\* that unless auto_dismiss is switched off, which lines 387-391 do not do;
\* self.progress_popup keeps naming it, and the label keeps its text.
dismiss_progress_popup ==
    /\ main_thread.pc = "idle"
    /\ progress_window = "open"
    /\ progress_window' = "destroyed"
    /\ UNCHANGED <<max_runs, main_thread, file_chooser, unnamed_popups, calls,
                   dialog, fs, selected_files, is_batch_mode, operation_mode,
                   output_path, progress_label, progress_bar, status_label,
                   messagebox, after_queue, threads>>

\* The same touch on an open progress popup that self.progress_popup names
\* no longer.
dismiss_unnamed_popup ==
    /\ main_thread.pc = "idle"
    /\ unnamed_popups > 0
    /\ unnamed_popups' = unnamed_popups - 1
    /\ UNCHANGED <<max_runs, main_thread, file_chooser, calls, dialog, fs,
                   selected_files, is_batch_mode, operation_mode, output_path,
                   progress_window, progress_label, progress_bar, status_label,
                   messagebox, after_queue, threads>>

\* convert_files_thread, lines 357-358: the locals before the loop.
convert_files_thread_start(t) ==
    /\ threads[t].pc = "start"
    /\ threads' = [threads EXCEPT ![t] =
            [@ EXCEPT !.pc = "loop",
                      !.total_files = Len(threads[t].files),
                      !.successful_conversions = 0]]
    /\ UNCHANGED <<max_runs, main_thread, file_chooser, unnamed_popups, calls,
                   dialog, fs, selected_files, is_batch_mode, operation_mode,
                   output_path, progress_window, progress_label, progress_bar,
                   status_label, messagebox, after_queue>>

\* Lines 360-363: the next item of the list, and update_progress (394-397),
\* which sets the label's text at once, on the worker thread.
convert_files_thread_next(t) ==
    LET th == threads[t]
        i  == th.i + 1
    IN  /\ th.pc = "loop"
        /\ IF th.i < Len(th.files)
           THEN /\ threads' = [threads EXCEPT ![t] =
                        [@ EXCEPT !.pc = "body", !.i = i,
                                  !.processed = Append(@, th.files[i]),
                                  !.emitted = Append(@,
                                      Event("start", i, th.total_files))]]
                /\ progress_label' =
                        IF progress_label = NoLabel THEN progress_label
                        ELSE Label("Converting", i, th.total_files,
                                   basename(th.files[i]))
           ELSE /\ threads' = [threads EXCEPT ![t] = [@ EXCEPT !.pc = "close"]]
                /\ UNCHANGED progress_label
        /\ UNCHANGED <<max_runs, main_thread, file_chooser, unnamed_popups,
                       calls, dialog, fs, selected_files, is_batch_mode,
                       operation_mode, output_path, progress_window,
                       progress_bar, status_label, messagebox, after_queue>>

\* Lines 366-368: the existence check of one file; show_error (405-415)
\* opens its popup on the worker thread.
convert_files_thread_exists(t) ==
    LET th        == threads[t]
        file_path == th.files[th.i]
    IN  /\ th.pc = "body"
        /\ IF ~exists(fs, file_path)
           THEN /\ messagebox' = Box("File not found", file_path, t)
                /\ threads' = [threads EXCEPT ![t] =
                        [@ EXCEPT !.pc = "loop",
                                  !.emitted = Append(@, Event("error", th.i, 0))]]
           ELSE /\ threads' = [threads EXCEPT ![t] = [@ EXCEPT !.pc = "resize"]]
                /\ UNCHANGED messagebox
        /\ UNCHANGED <<max_runs, main_thread, file_chooser, unnamed_popups,
                       calls, dialog, fs, after_queue, selected_files,
                       is_batch_mode, operation_mode, output_path,
                       progress_window, progress_label, progress_bar,
                       status_label>>

\* Lines 370-375: convert_image on the file, the success counter, or the
\* error popup opened on the worker thread.
convert_files_thread_convert(t) ==
    LET th        == threads[t]
        file_path == th.files[th.i]
        done      == convert_image(fs, file_path, th.output_dir, th.width,
                                   th.height)
    IN  /\ th.pc = "resize"
        /\ fs' = done.fs
        /\ IF done.ok
           THEN /\ threads' = [threads EXCEPT ![t] =
                        [@ EXCEPT !.pc = "loop",
                                  !.successful_conversions = @ + 1,
                                  !.called = Append(@, th.i),
                                  !.oks = Append(@, th.i),
                                  !.written = Append(@, done.output_path),
                                  !.saved = Append(@, done.img)]]
                /\ UNCHANGED messagebox
           ELSE /\ messagebox' = Box("Error converting", basename(file_path), t)
                /\ threads' = [threads EXCEPT ![t] =
                        [@ EXCEPT !.pc = "loop",
                                  !.called = Append(@, th.i),
                                  !.emitted = Append(@, Event("error", th.i, 1))]]
        /\ UNCHANGED <<max_runs, main_thread, file_chooser, unnamed_popups,
                       calls, dialog, after_queue, selected_files,
                       is_batch_mode, operation_mode, output_path,
                       progress_window, progress_label, progress_bar,
                       status_label>>

\* Line 378, close_progress_popup on the worker thread, line 401: the test
\* of self.progress_popup. With None the function returns at once.
convert_files_thread_close(t) ==
    /\ threads[t].pc = "close"
    /\ threads' = [threads EXCEPT ![t] =
            [@ EXCEPT !.pc = IF progress_window = None THEN "complete"
                             ELSE "dismiss",
                      !.emitted = Append(@, Event("close", 0, 0))]]
    /\ UNCHANGED <<max_runs, main_thread, file_chooser, unnamed_popups, calls,
                   dialog, fs, selected_files, is_batch_mode, operation_mode,
                   output_path, progress_window, progress_label, progress_bar,
                   status_label, messagebox, after_queue>>

\* close_progress_popup, line 402: self.progress_popup is read again and the
\* popup it names is dismissed, which closes an open popup and leaves
\* any other as it is. When another worker has set the attribute to None
\* since line 401, None.dismiss() raises AttributeError and the thread ends
\* without the status text of line 379.
close_progress_popup_dismiss(t) ==
    /\ threads[t].pc = "dismiss"
    /\ IF progress_window = None
       THEN /\ threads' = [threads EXCEPT ![t] =
                    [@ EXCEPT !.pc = "crashed", !.shared = FALSE]]
            /\ UNCHANGED progress_window
       ELSE /\ threads' = [threads EXCEPT ![t] = [@ EXCEPT !.pc = "clear"]]
            /\ progress_window' = IF progress_window = "open" THEN "destroyed"
                                  ELSE progress_window
    /\ UNCHANGED <<max_runs, main_thread, file_chooser, unnamed_popups, calls,
                   dialog, fs, selected_files, is_batch_mode, operation_mode,
                   output_path, progress_label, progress_bar, status_label,
                   messagebox, after_queue>>

\* close_progress_popup, line 403: self.progress_popup = None, whatever
\* the attribute names by now. A popup the main thread has opened since
\* line 402 stays open and has no name any more.
close_progress_popup_clear(t) ==
    /\ threads[t].pc = "clear"
    /\ threads' = [threads EXCEPT ![t] = [@ EXCEPT !.pc = "complete"]]
    /\ progress_window' = None
    /\ unnamed_popups' = unnamed_popups
                           + (IF progress_window = "open" THEN 1 ELSE 0)
    /\ UNCHANGED <<max_runs, main_thread, file_chooser, calls, dialog, fs,
                   selected_files, is_batch_mode, operation_mode, output_path,
                   progress_label, progress_bar, status_label, messagebox,
                   after_queue>>

\* Line 379: the status text is set on the worker thread and the thread
\* returns; self.selected_files is left as it is.
convert_files_thread_status(t) ==
    LET th == threads[t]
    IN  /\ th.pc = "complete"
        /\ threads' = [threads EXCEPT ![t] =
                [@ EXCEPT !.pc = "done", !.shared = FALSE,
                          !.emitted = Append(@,
                              Event("complete", th.successful_conversions,
                                    th.total_files))]]
        /\ status_label' = Status("Conversion complete!",
                                  th.successful_conversions, th.total_files,
                                  "", th.output_dir)
        /\ UNCHANGED <<max_runs, main_thread, file_chooser, unnamed_popups,
                       calls, dialog, fs, selected_files, is_batch_mode,
                       operation_mode, output_path, progress_window,
                       progress_label, progress_bar, messagebox, after_queue>>

\* The Kivy application after construction, in a session of so many runs.
KivyInit == StartedOn(KivyFS, MaxReruns)

\* Both inputs left empty.
NoSizes == << << >>, << >> >>

\* A session of the Kivy application with up to MaxReruns presses of Convert
\* that pass validation. Before the first run the user does anything; once
\* a run has been started the user still dismisses popups, adds files in
\* batch mode and presses Convert with empty size inputs. After an
\* exception has ended the application the worker threads, daemon threads,
\* may still take steps until the process is gone.
KivyNext ==
    \/ \E batch \in BOOLEAN :
           /\ CanStart
           /\ threads = << >> \/ batch
           /\ PngToJpgConverter_show_file_chooser(batch)
    \/ \E selection \in SelectionChoices : select_files(selection) /\ Within
    \/ cancel_file_chooser
    \/ \E text \in KivyOutputTexts :
           threads = << >> /\ edit_output_path(text)
    \/ \E f \in VolatileFiles :
           (Awaited(f) \/ f \in file_chooser) /\ vanish(f)
    \/ \E size \in KivySizeInputs :
           /\ CanStart
           /\ threads = << >> \/ size = NoSizes
           /\ convert_files(size[1], size[2])
    \/ show_progress_popup
    \/ show_progress_popup_open
    \/ convert_files_start
    \/ dismiss_progress_popup
    \/ dismiss_unnamed_popup
    \/ \E t \in DOMAIN threads : convert_files_thread_start(t)
    \/ \E t \in DOMAIN threads : convert_files_thread_next(t)
    \/ \E t \in DOMAIN threads : convert_files_thread_exists(t)
    \/ \E t \in DOMAIN threads : convert_files_thread_convert(t)
    \/ \E t \in DOMAIN threads : convert_files_thread_close(t)
    \/ \E t \in DOMAIN threads : close_progress_popup_dismiss(t)
    \/ \E t \in DOMAIN threads : close_progress_popup_clear(t)
    \/ \E t \in DOMAIN threads : convert_files_thread_status(t)

KivySpec == KivyInit /\ [][KivyNext]_vars

\* ------------------------------------------------------------------ pipeline calls
\* resize_image, convert_image and the two ensure_output_directory called
\* directly, as functions of their modules, on a file system that holds one
\* source file.
AB_PNG   == <<"/", "i", "n", "/", "a", ".", "b", ".", "p", "n", "g">>
X_JPEG   == <<"/", "i", "n", "/", "x", ".", "J", "P", "E", "G">>
E_ACUTE  == <<"/", "i", "n", "/", "a", ".", "J", "P", "É">>
NESTED   == DefaultOutputDir \o <<"/", "q">>
TRAILING == DefaultOutputDir \o <<"/">>
RELATIVE == <<"o">>

\* Names of the source file, and the colour modes PIL decodes from a PNG and
\* from a JPEG file.
PipelineSources == {A_PNG, A_JPG, AB_PNG, X_JPEG, E_ACUTE}
PngModes == {"1", "L", "LA", "P", "RGB", "RGBA"}
JpegModes == {"L", "RGB", "CMYK"}
AlphaModes == {"RGBA", "LA", "PA", "RGBa", "La"}
PipelineImages ==
    {Img("PNG", m, 4, 2) : m \in PngModes}
      \cup {Img("JPEG", m, 3, 3) : m \in JpegModes} \cup {NoImage}

\* The arguments of the calls: output directories, (width, height) pairs and
\* format directives of the conversions, and the paths to ensure.
PipelineDirs == {IN_DIR, IN_DIR \o <<"/">>, DefaultOutputDir}
PipelineSizes ==
    { <<NoInt, NoInt>>, <<SomeInt(2), NoInt>>, <<SomeInt(0), SomeInt(1)>>,
      <<SomeInt(2), SomeInt(1)>>, <<SomeInt(0 - 1), SomeInt(1)>> }
PipelineFormats == {"JPG", "PNG", None}
EnsureDirs == {DefaultOutputDir, TRAILING, NESTED, BLOCKED, RO_NEW, RELATIVE}

\* The directories of InitialFS and one source file.
PipelineFS(name, img) ==
    [q \in {ROOT, HOME, IN_DIR, RO_DIR, BLOCKED} |-> InitialFS[q]]
      @@ (name :> File(img))

PipelineInit ==
    /\ fs \in {PipelineFS(name, img) :
                   name \in PipelineSources, img \in PipelineImages}
    /\ selected_files = << >>
    /\ is_batch_mode = FALSE
    /\ operation_mode = "convert"
    /\ output_path = DefaultOutputDir
    /\ progress_window = None
    /\ dialog = None
    /\ progress_label = NoLabel
    /\ progress_bar = 0
    /\ status_label = NoStatus
    /\ messagebox = NoBox
    /\ after_queue = << >>
    /\ threads = << >>
    /\ max_runs = 0
    /\ main_thread = Idle
    /\ file_chooser = {}
    /\ unnamed_popups = 0
    /\ calls = << >>

\* The record of a call: its arguments, what the file system held for them
\* before the call, and what the call returned and left behind.
Call(fn, args, before, after) ==
    [fn |-> fn, file_path |-> args.file_path, output_dir |-> args.output_dir,
     width |-> args.width, height |-> args.height,
     output_format |-> args.output_format,
     source |-> before.source, existed |-> before.existed,
     writable |-> before.writable,
     ok |-> after.ok, returned |-> after.returned, saved |-> after.saved,
     changed |-> after.changed, made |-> after.made]

\* The image a path holds, NoImage when it holds none.
ImageAt(f, p) ==
    IF exists(f, p) /\ Entry(f, p).kind = "file" THEN Entry(f, p).img
    ELSE NoImage

\* resize_image(file_path, output_dir, width, height, output_format)
call_resize_image(file_path, output_dir, width, height, output_format) ==
    LET done == resize_image(fs, file_path, output_dir, width, height,
                             output_format)
        path == OutputPath(file_path, output_dir, output_format)
    IN  /\ fs' = done.fs
        /\ calls' = Append(calls,
              Call("resize_image",
                   [file_path |-> file_path, output_dir |-> output_dir,
                    width |-> width, height |-> height,
                    output_format |-> output_format],
                   [source |-> ImageAt(fs, file_path),
                    existed |-> exists(fs, path),
                    writable |-> CanWrite(fs, path)],
                   [ok |-> done.ok, returned |-> done.output_path,
                    saved |-> IF done.ok
                              THEN ImageAt(done.fs, done.output_path)
                              ELSE NoImage,
                    changed |-> done.fs # fs,
                    made |-> isdir(done.fs, output_dir)]))
        /\ UNCHANGED <<selected_files, is_batch_mode, operation_mode,
                       output_path, progress_window, progress_label,
                       progress_bar, status_label, messagebox, after_queue,
                       threads, max_runs, main_thread, file_chooser,
                       unnamed_popups, dialog>>

\* convert_image(file_path, output_dir, width, height); the record's
\* output_format is the format it always encodes in.
call_convert_image(file_path, output_dir, width, height) ==
    LET done == convert_image(fs, file_path, output_dir, width, height)
        path == join(output_dir,
                     splitext(basename(file_path))[1] \o <<".", "j", "p", "g">>)
    IN  /\ fs' = done.fs
        /\ calls' = Append(calls,
              Call("convert_image",
                   [file_path |-> file_path, output_dir |-> output_dir,
                    width |-> width, height |-> height,
                    output_format |-> "JPG"],
                   [source |-> ImageAt(fs, file_path),
                    existed |-> exists(fs, path),
                    writable |-> CanWrite(fs, path)],
                   [ok |-> done.ok, returned |-> done.output_path,
                    saved |-> IF done.ok
                              THEN ImageAt(done.fs, done.output_path)
                              ELSE NoImage,
                    changed |-> done.fs # fs,
                    made |-> isdir(done.fs, output_dir)]))
        /\ UNCHANGED <<selected_files, is_batch_mode, operation_mode,
                       output_path, progress_window, progress_label,
                       progress_bar, status_label, messagebox, after_queue,
                       threads, max_runs, main_thread, file_chooser,
                       unnamed_popups, dialog>>

\* The record of a call of one of the two ensure_output_directory.
EnsureCall(fn, output_dir, ensured) ==
    Call(fn,
         [file_path |-> << >>, output_dir |-> output_dir,
          width |-> NoInt, height |-> NoInt, output_format |-> None],
         [source |-> NoImage, existed |-> exists(fs, output_dir),
          writable |-> FALSE],
         [ok |-> ensured.ok, returned |-> << >>, saved |-> NoImage,
          changed |-> ensured.fs # fs,
          made |-> isdir(ensured.fs, output_dir)])

\* ensure_output_directory(output_dir) of main.py
call_ensure_output_directory(output_dir) ==
    LET ensured == ensure_output_directory(fs, output_dir)
    IN  /\ fs' = ensured.fs
        /\ calls' = Append(calls,
              EnsureCall("ensure_output_directory", output_dir, ensured))
        /\ UNCHANGED <<selected_files, is_batch_mode, operation_mode,
                       output_path, progress_window, progress_label,
                       progress_bar, status_label, messagebox, after_queue,
                       threads, max_runs, main_thread, file_chooser,
                       unnamed_popups, dialog>>

\* ensure_output_directory(output_dir) of utils/image_converter.py
call_image_converter_ensure_output_directory(output_dir) ==
    LET ensured == image_converter_ensure_output_directory(fs, output_dir)
    IN  /\ fs' = ensured.fs
        /\ calls' = Append(calls,
              EnsureCall("image_converter.ensure_output_directory",
                         output_dir, ensured))
        /\ UNCHANGED <<selected_files, is_batch_mode, operation_mode,
                       output_path, progress_window, progress_label,
                       progress_bar, status_label, messagebox, after_queue,
                       threads, max_runs, main_thread, file_chooser,
                       unnamed_popups, dialog>>

\* The direct calls of the conversions and of the directory functions, by
\* their position in the log.
ResizeCalls == {k \in DOMAIN calls : calls[k].fn = "resize_image"}
ConvertCalls == {k \in DOMAIN calls : calls[k].fn = "convert_image"}
EnsureCalls ==
    {k \in DOMAIN calls :
        calls[k].fn \in {"ensure_output_directory",
                         "image_converter.ensure_output_directory"}}

\* What the specification follows: MaxCalls calls, the directories ensured
\* before the conversions as the applications do, and MaxConversions
\* conversions.
CanEnsure == Len(calls) < MaxCalls /\ ResizeCalls \cup ConvertCalls = {}
CanConvert ==
    /\ Len(calls) < MaxCalls
    /\ Cardinality(ResizeCalls \cup ConvertCalls) < MaxConversions

PipelineNext ==
    \/ \E file_path \in {f \in PipelineSources : exists(fs, f)},
          output_dir \in PipelineDirs, size \in PipelineSizes,
          output_format \in PipelineFormats :
           CanConvert /\ call_resize_image(file_path, output_dir, size[1],
                                           size[2], output_format)
    \/ \E file_path \in {f \in PipelineSources : exists(fs, f)},
          output_dir \in PipelineDirs, size \in PipelineSizes :
           CanConvert /\ call_convert_image(file_path, output_dir, size[1],
                                            size[2])
    \/ \E output_dir \in EnsureDirs :
           CanEnsure /\ call_ensure_output_directory(output_dir)
    \/ \E output_dir \in EnsureDirs :
           CanEnsure /\ call_image_converter_ensure_output_directory(output_dir)

PipelineSpec == PipelineInit /\ [][PipelineNext]_vars

\* ------------------------------------------------------------------ claims
\* The worker's loop is over: it is at or past line 561.
LoopOver(t) ==
    threads[t].pc \in {"close", "dismiss", "clear", "complete", "done",
                       "crashed"}

\* How many callbacks of a kind a log holds.
CountEv(log, ev) == Cardinality({k \in DOMAIN log : log[k].ev = ev})

\* C1: every batch run emits its completion notification (the
\* 'succeeded/total' summary scheduled for _complete_processing) exactly
\* once, whatever the per-file outcomes, also when no file succeeded: a
\* worker thread that has ended has emitted it once.
C1_CompletionExactlyOnce ==
    \A t \in DOMAIN threads :
        ~Live(t) => CountEv(threads[t].emitted, "complete") = 1

\* C2: the callbacks of a run are emitted in input order, one unit per file:
\* the start tick (i - 1 of N) of file i, then exactly one outcome of file i
\* (one error report or the completed tick i of N), and only then anything of
\* file i + 1; after the last unit comes the closing of the progress window,
\* and the completion notification is always the last callback of the run:
\* the log of a worker that is about to end or has ended, however it ended,
\* ends with it.
C2_UnitPerFileInOrder ==
    \A t \in DOMAIN threads :
        LET th    == threads[t]
            log   == th.emitted
            units == IF th.pc \in {"body", "resize", "tick"} THEN 2 * th.i - 1
                     ELSE 2 * th.i
        IN  /\ Len(log) = units
                  + (IF th.pc \in {"complete", "done", "crashed"} THEN 1 ELSE 0)
                  + (IF th.pc \in {"done", "crashed"} THEN 1 ELSE 0)
            /\ \A k \in 1..units :
                  IF k % 2 = 1
                  THEN log[k] = Event("tick", (k + 1) \div 2 - 1, th.total_files)
                  ELSE log[k] \in { Event("tick", k \div 2, th.total_files),
                                    Event("error", k \div 2, 0),
                                    Event("error", k \div 2, 1) }
            /\ Len(log) > units => log[units + 1].ev = "close"
            /\ ~Live(t) => log[Len(log)].ev = "complete"

\* C3: a file's failure never aborts the batch: the loop fetches the items
\* of its list in order, each once, and when it is over every one of the N
\* requests the run was started with has been attempted and has had its
\* outcome, whichever of them failed or was missing.
C3_EveryRequestAttempted ==
    \A t \in DOMAIN threads :
        LET th == threads[t]
        IN  /\ th.processed = SubSeq(th.files, 1, th.i)
            /\ LoopOver(t) =>
                  /\ Len(th.processed) >= Len(th.given)
                  /\ SubSeq(th.processed, 1, Len(th.given)) = th.given
                  /\ CountEv(th.emitted, "error") + Len(th.oks)
                        = Len(th.processed)

\* The loop of a run of two files is over and the first of them had failed.
C3_Witness ==
    \E t \in DOMAIN threads :
        /\ LoopOver(t)
        /\ Len(threads[t].given) = 2
        /\ threads[t].emitted[2].ev = "error"
        /\ Len(threads[t].processed) = 2

\* The indices of a run whose file did not exist when the worker checked it.
Missing(th) ==
    {k \in 1..Len(th.processed) :
        \E e \in DOMAIN th.emitted : th.emitted[e] = Event("error", k, 0)}

Range(seq) == {seq[k] : k \in DOMAIN seq}

\* C4: a batch of N requests of which exactly one does not exist at
\* processing time and the other N - 1 are converted reports exactly one file
\* error, does not call the pipeline for the missing file and completes with
\* the summary (N - 1, N), for every N >= 1.
C4_OneMissingFile ==
    \A t \in DOMAIN threads :
        LET th == threads[t]
            N  == Len(th.processed)
        IN  ( /\ ~Live(t)
              /\ Cardinality(Missing(th)) = 1
              /\ (1..N) \ Missing(th) = Range(th.oks) )
            => /\ CountEv(th.emitted, "error") = 1
               /\ Missing(th) \cap Range(th.called) = {}
               /\ \E e \in DOMAIN th.emitted :
                     th.emitted[e] = Event("complete", N - 1, N)

\* C5: the success counter of the final summary is the number of requests
\* whose pipeline call returned an output path (never counting a missing file
\* or a failed conversion), and the total of the summary is the number of
\* requests the worker attempted.
C5_SummaryCounts ==
    \A t \in DOMAIN threads :
        LET th == threads[t]
        IN  /\ th.successful_conversions = Len(th.oks)
            /\ \A e \in DOMAIN th.emitted :
                  th.emitted[e].ev = "complete" =>
                      /\ th.emitted[e].a = Len(th.oks)
                      /\ th.emitted[e].b = Len(th.processed)

\* The converted files of a run that are present in its output directory.
OutputsPresent(th) ==
    {p \in Range(th.written) :
        /\ exists(fs, p) /\ Entry(fs, p).kind = "file"
        /\ Resolve(fs, dirname(p)) = Resolve(fs, th.output_dir)}

\* C6 as claimed: a batch of N requests of which k fail ends with exactly
\* N - k converted files present in the output directory and exactly k
\* reported errors, for every list the selection can produce.
C6_OneFilePerSuccess ==
    \A t \in DOMAIN threads :
        LET th == threads[t]
            N  == Len(th.processed)
            k  == N - Len(th.oks)
        IN  LoopOver(t) =>
              /\ CountEv(th.emitted, "error") = k
              /\ Cardinality(OutputsPresent(th)) = N - k

\* Two source paths are given the same output name: the same base name and,
\* when the format is kept, the same lower-cased extension.
SameOutputName(f, g, operation) ==
    /\ splitext(basename(f))[1] = splitext(basename(g))[1]
    /\ operation = "convert" \/ Lower(splitext(f)[2]) = Lower(splitext(g)[2])

\* C6 as amended: a batch of N requests of which k fail ends with exactly k
\* reported errors and N - k successful conversions, the output file of each
\* of which is present in the output directory; two successful requests
\* share one output file exactly when their output names coincide, so that
\* the directory holds N - k converted files only when these names are
\* pairwise different.
C6_OutputPerSuccessfulName ==
    \A t \in DOMAIN threads :
        LET th == threads[t]
            N  == Len(th.processed)
            k  == N - Len(th.oks)
        IN  LoopOver(t) =>
              /\ CountEv(th.emitted, "error") = k
              /\ Len(th.written) = N - k
              /\ OutputsPresent(th) = Range(th.written)
              /\ \A a \in DOMAIN th.oks, b \in DOMAIN th.oks :
                    th.written[a] = th.written[b]
                      <=> SameOutputName(th.processed[th.oks[a]],
                                         th.processed[th.oks[b]], th.operation)

\* The loop of a run is over in which two requests succeeded and share their
\* output file.
C6_Witness ==
    \E t \in DOMAIN threads :
        /\ LoopOver(t)
        /\ Len(threads[t].oks) = 2
        /\ Cardinality(OutputsPresent(threads[t])) = 1

\* A step of a worker thread.
WorkerStep ==
    \E t \in DOMAIN threads :
        \/ thread_start(t) \/ thread_next(t) \/ thread_body(t)
        \/ thread_resize(t) \/ thread_tick(t) \/ thread_close(t)
        \/ thread_complete(t)

\* C7: every progress, error and completion notification of the worker is
\* scheduled onto the main thread's event loop: no step of a worker thread
\* changes state the presentation owns (progress window, label and bar,
\* status label, error dialog).
C7_WorkerNeverTouchesUi ==
    [][WorkerStep => UNCHANGED <<progress_window, progress_label,
                                 progress_bar, status_label, messagebox>>]_vars

\* C8: while a run lasts, no presentation-side action changes the list the
\* worker iterates: it is the list selected when the run started, the worker
\* processes exactly that sequence, and its length is the total computed at
\* the start.
C8_ListOwnedByWorker ==
    \A t \in DOMAIN threads :
        LET th == threads[t]
        IN  /\ Live(t) => th.files = th.given
            /\ LoopOver(t) =>
                  /\ th.processed = th.given
                  /\ th.total_files = Len(th.given)

\* The directory process_files works with for the text of the entry.
EffectiveOutputDir ==
    IF Strip(output_path) = << >> THEN DefaultOutputDir ELSE Strip(output_path)

\* A text of a size entry that is not a number.
NonNumeric(text) == Strip(text) # << >> /\ ~PyInt(text).ok

\* The regular files of a file system, with what they hold.
RegularFiles(f) == {<<p, f[p]>> : p \in {q \in DOMAIN f : f[q].kind = "file"}}

\* C9: an attempt that fails validation (no file selected, an output
\* directory that cannot be made to exist, a width or height text that is
\* no number) is reported at once and starts nothing: no worker thread, no
\* progress window, no converted file.
C9_InvalidAttemptStartsNothing ==
    [][\A w \in SizeTexts, h \in SizeTexts :
          ( /\ process_files(w, h)
            /\ \/ selected_files = << >>
               \/ ~isdir(ensure_output_directory(fs, EffectiveOutputDir).fs,
                         EffectiveOutputDir)
               \/ NonNumeric(w) \/ NonNumeric(h) )
          => /\ threads' = threads
             /\ progress_window' = progress_window
             /\ RegularFiles(fs') = RegularFiles(fs)
             /\ messagebox'.kind # "none" /\ messagebox'.thread = MainThread
      ]_vars

\* C10: ensure_output_directory fails whenever the directory cannot be made
\* to exist, also when the path exists as a regular file: when it returns
\* without an error, the path is an existing directory.
C10_EnsuredPathIsDirectory ==
    LET ensured == ensure_output_directory(fs, EffectiveOutputDir)
    IN  ensured.ok => isdir(ensured.fs, EffectiveOutputDir)

\* C11: the width and the height a worker is started with are each absent
\* or a positive integer, whatever the size entries hold: a text that is no
\* number, and a text that reads as zero or as a negative number, starts no
\* worker with such a value.
C11_SizesPositiveOrAbsent ==
    [][\A size \in SizeInputs :
          ( /\ process_files(size[1], size[2])
            /\ Len(threads') > Len(threads) )
          => LET th == threads'[Len(threads')]
             IN  /\ ~NonNumeric(size[1]) /\ ~NonNumeric(size[2])
                 /\ th.width = NoInt \/ th.width[1] > 0
                 /\ th.height = NoInt \/ th.height[1] > 0
      ]_vars

\* C12: a call of resize_image or of convert_image that returns a path has
\* written an image of exactly (width, height) pixels when both are set (to
\* positive numbers), whatever the size of the source; when one of them or
\* both are absent, the image written has the size of the source.
C12_OutputSize ==
    \A k \in ResizeCalls \cup ConvertCalls :
        LET c == calls[k]
        IN  c.ok =>
              /\ ( /\ c.width # NoInt /\ c.width[1] > 0
                   /\ c.height # NoInt /\ c.height[1] > 0 )
                 => c.saved.size = <<c.width[1], c.height[1]>>
              /\ (c.width = NoInt \/ c.height = NoInt)
                 => c.saved.size = c.source.size

\* A call with both sizes set has written an image of another size than the
\* source's.
C12_Witness ==
    \E k \in ResizeCalls :
        /\ calls[k].ok
        /\ calls[k].width = SomeInt(2) /\ calls[k].height = SomeInt(1)
        /\ calls[k].saved.size = <<2, 1>>
        /\ calls[k].source.size = <<4, 2>>

\* The name resize_image gives the output for a format directive and the
\* extension it is told to use.
NameFor(file_path, output_format, extension) ==
    LET base == splitext(basename(file_path))[1]
    IN  IF output_format = "JPG" THEN base \o <<".", "j", "p", "g">>
        ELSE IF output_format = "PNG" THEN base \o <<".", "p", "n", "g">>
        ELSE base \o <<"_", "r", "e", "s", "i", "z", "e", "d">> \o extension

\* C13 as claimed: the path resize_image returns is the output directory
\* joined with <base>.jpg for JPEG, <base>.png for PNG and
\* <base>_resized<extension> when the format is kept, the extension being
\* the source file's own.
C13_NameWithOwnExtension ==
    \A k \in ResizeCalls :
        LET c == calls[k]
        IN  c.ok =>
              c.returned = join(c.output_dir,
                                NameFor(c.file_path, c.output_format,
                                        splitext(c.file_path)[2]))

\* C13 as amended: the same, the extension being the source file's own
\* extension in lower case (so the name depends on the base name, the format
\* directive and, when the format is kept, the extension).
C13_NameWithLowerCaseExtension ==
    \A k \in ResizeCalls :
        LET c == calls[k]
        IN  c.ok =>
              /\ c.returned = join(c.output_dir,
                                   NameFor(c.file_path, c.output_format,
                                           Lower(splitext(c.file_path)[2])))
              /\ exists(fs, c.returned)

\* A source with an upper-case extension was written with its format kept.
C13_Witness ==
    \E k \in ResizeCalls :
        /\ calls[k].ok
        /\ calls[k].file_path = A_JPG
        /\ calls[k].output_format = None
        /\ basename(calls[k].returned)
             = <<"a", "_", "r", "e", "s", "i", "z", "e", "d", ".", "j", "p", "g">>

\* The format a call encodes in is JPEG.
EffectiveJpeg(c) ==
    \/ c.output_format = "JPG"
    \/ c.output_format = None /\ c.source.format = "JPEG"

\* C14: whenever the effective output format is JPEG (always, for
\* convert_image), the image handed to the encoder has no alpha channel,
\* whatever the colour mode of the source: a call on a decodable source that asks for no impossible size and can
\* write its output never fails, and the image it writes has mode RGB.
C14_NoAlphaToJpeg ==
    \A k \in ResizeCalls \cup ConvertCalls :
        LET c == calls[k]
        IN  ( /\ EffectiveJpeg(c)
              /\ c.source.format # ""
              /\ (c.width # NoInt /\ c.height # NoInt)
                    => (c.width[1] >= 0 /\ c.height[1] >= 0)
              /\ c.writable )
            => /\ c.ok
               /\ c.saved.format = "JPEG"
               /\ c.saved.mode \notin AlphaModes

\* A source with an alpha channel was written as JPEG.
C14_Witness ==
    \E k \in ResizeCalls :
        /\ calls[k].source.mode = "LA"
        /\ calls[k].output_format = "JPG"
        /\ calls[k].ok
        /\ calls[k].saved.mode = "RGB"

\* C17: ensure_output_directory (of main.py and of image_converter.py) is
\* idempotent: of two calls in sequence on a path that did not exist, the
\* first of which succeeds, the first has made the directory and the second
\* succeeds and changes nothing.
C17_EnsureIdempotent ==
    \A k \in EnsureCalls :
        ( /\ k + 1 \in EnsureCalls
          /\ calls[k + 1].output_dir = calls[k].output_dir
          /\ ~calls[k].existed
          /\ calls[k].ok )
        => /\ calls[k].made /\ calls[k].changed
           /\ calls[k + 1].ok
           /\ ~calls[k + 1].changed
           /\ isdir(fs, calls[k].output_dir)

\* Two calls in sequence on a nested path that did not exist.
C17_Witness ==
    /\ Len(calls) = 2
    /\ calls[1].fn = "ensure_output_directory"
    /\ calls[2].fn = "ensure_output_directory"
    /\ calls[1].output_dir = NESTED /\ calls[2].output_dir = NESTED
    /\ ~calls[1].existed /\ calls[1].ok /\ calls[2].ok

\* C15: writing an output overwrites an existing file of the same name
\* without warning: with every step in which a worker records a successful
\* write, whether or not the path already held a file (of this batch, of an
\* earlier one or of the user), the path holds the image just saved, and the
\* step reports no error.
C15_LastWriterWins ==
    [][\A t \in DOMAIN threads :
          (/\ t \in DOMAIN threads'
           /\ Len(threads'[t].written) = Len(threads[t].written) + 1)
          => LET th == threads'[t]
                 n == Len(th.written)
             IN  /\ Len(th.saved) = n
                 /\ exists(fs', th.written[n])
                 /\ Entry(fs', th.written[n]).img = th.saved[n]
                 /\ CountEv(th.emitted, "error")
                      = CountEv(threads[t].emitted, "error")]_vars

\* The loop of a batch is over in which two successful requests wrote
\* different images to one path, and the path holds the second.
C15_Witness ==
    \E t \in DOMAIN threads :
        /\ LoopOver(t)
        /\ Len(threads[t].written) = 2
        /\ threads[t].written[1] = threads[t].written[2]
        /\ threads[t].saved[1] # threads[t].saved[2]
        /\ Entry(fs, threads[t].written[2]).img = threads[t].saved[2]
        /\ CountEv(threads[t].emitted, "error") = 0

\* Every run has ended and everything the runs scheduled has been done.
Quiet ==
    /\ threads # << >>
    /\ \A t \in DOMAIN threads : ~Live(t)
    /\ after_queue = << >>

\* C16: nothing of a batch is left once its run is complete: at the step
\* with which a run and everything it scheduled has ended, whatever the
\* outcomes of its files, the selected-files list is empty (so that a
\* following Process press is rejected as an empty selection).
C16_SelectionEmptyAfterRun ==
    [][(~Quiet /\ Quiet') => selected_files' = << >>]_vars

\* A drop of this file is accepted in the current operation mode.
Accepted(f) ==
    IF operation_mode = "convert" THEN EndsWith(Lower(f), PNG_EXT)
    ELSE EndsWith(Lower(f), JPG_EXT) \/ EndsWith(Lower(f), JPEG_EXT)

\* C18: selection follows the mode flag, in the Tk application and in the
\* Kivy application: a single-mode choice replaces the list by the one path
\* chosen, a batch-mode choice appends the chosen paths to the list in order
\* and without deduplication, a cancelled dialog leaves the list as it is,
\* and an accepted drop appends or replaces according to the flag, which
\* only a chooser invocation sets.
C18_SelectionFollowsFlag ==
    [][/\ \A batch \in BOOLEAN :
             (\/ show_file_chooser(batch)
              \/ PngToJpgConverter_show_file_chooser(batch)) =>
                /\ is_batch_mode' = batch
                /\ selected_files' = selected_files
       /\ \A file_paths \in ChooserChoices :
             file_chooser_returns(file_paths) =>
                /\ is_batch_mode' = is_batch_mode
                /\ selected_files' =
                      IF file_paths = << >> THEN selected_files
                      ELSE IF is_batch_mode THEN selected_files \o file_paths
                      ELSE <<file_paths[1]>>
       /\ \A selection \in SelectionChoices \ {<< >>} :
             (dialog = "popup" /\ select_files(selection)) =>
                /\ is_batch_mode' = is_batch_mode
                /\ IF is_batch_mode
                   THEN selected_files' = selected_files \o selection
                   ELSE /\ Len(selected_files') = 1
                        /\ selected_files'[1] \in Range(selection)
       /\ cancel_file_chooser => selected_files' = selected_files
       /\ \A f \in DropFiles :
             on_drop(<<f>>) =>
                /\ is_batch_mode' = is_batch_mode
                /\ selected_files' =
                      IF ~Accepted(f) THEN selected_files
                      ELSE IF is_batch_mode THEN selected_files \o <<f>>
                      ELSE <<f>>
       /\ is_batch_mode' # is_batch_mode =>
             \/ show_file_chooser(is_batch_mode')
             \/ PngToJpgConverter_show_file_chooser(is_batch_mode')
      ]_vars

\* C19: at most one worker thread is active at any time: no second worker
\* is started while an earlier one has not reached its completion step.
C19_OneWorkerAtATime ==
    Cardinality({t \in DOMAIN threads : Live(t)}) <= 1

\* C20: every percentage a worker reports lies in 0..100, the percentages
\* of a run never decrease, and 100 is reported only as the completed tick
\* of the last file of the list.
C20_PercentInRange ==
    \A t \in DOMAIN threads :
        LET th    == threads[t]
            ticks == {k \in DOMAIN th.emitted : th.emitted[k].ev = "tick"}
            pct(k) == Percent(th.emitted[k].a, th.emitted[k].b)
        IN  \A k \in ticks :
              /\ pct(k) >= 0 /\ pct(k) <= 100
              /\ \A j \in ticks : j < k => pct(j) <= pct(k)
              /\ pct(k) = 100 => (k % 2 = 0 /\ k \div 2 = Len(th.files))

\* C21: no conversion writes to the path it reads from: whatever the file
\* selected, the operation mode at Process time and the output directory
\* (the directory of the source included), the path a successful request
\* was written to differs from the path of its source file.
C21_SourceNeverOverwritten ==
    \A t \in DOMAIN threads :
        \A k \in DOMAIN threads[t].written :
            threads[t].written[k] # threads[t].files[threads[t].oks[k]]

\* C22: a Process attempt that validation rejects (no file selected, an
\* output directory that cannot be created, a width or height text that is
\* no number) changes nothing but the error shown: in particular an attempt
\* rejected for its size texts creates no directory and leaves the
\* selected-files list and the output-path entry as they were.
C22_RejectedAttemptChangesNothing ==
    [][\A size \in SizeInputs :
          ( /\ process_files(size[1], size[2])
            /\ \/ selected_files = << >>
               \/ ~ensure_output_directory(fs, EffectiveOutputDir).ok
               \/ NonNumeric(size[1]) \/ NonNumeric(size[2]) )
          => UNCHANGED <<fs, selected_files, is_batch_mode, operation_mode,
                         output_path, progress_window, dialog, progress_label,
                         progress_bar, status_label, after_queue, threads>>
      ]_vars

====
